---- MODULE Spec2Model ----
(***************************************************************************)
(* vibedb: the schema editor's command history and manual schema mutation  *)
(* handlers (App component), modelled as a state machine.                  *)
(*                                                                         *)
(* JavaScript values are modelled as follows.                              *)
(*   - strings are TLA+ strings, built with \o and ToString exactly as the  *)
(*     template literals of the source build them;                          *)
(*   - an optional string that is absent is the sentinel Undefined;         *)
(*   - `Schema | null` is a record with an isNull flag;                     *)
(*   - an optional number (x, y) is a record [kind, v] whose kind is one of *)
(*     "undefined", "number", "NaN", "null"; numbers are integers, in units *)
(*     small enough that every halving the handlers perform is exact;       *)
(*   - Date.now() is the variable now, which advances whenever a handler    *)
(*     that reads it completes (two user events never share a millisecond). *)
(***************************************************************************)
EXTENDS Integers, Sequences, FiniteSets, TLC

\* ------------------------------------------------------------------ bounds
\* Number of identifier-minting handler calls (add table, add column,
\* add connection) in one behaviour.
MaxNow == 3
\* Number of snapshots the two history stacks hold together.
MaxHistory == 4
\* The same, in the behaviours of SpecDeep.
MaxDeepHistory == 5
\* The same, in the behaviours of SpecObserved.
MaxObservedHistory == 3
\* The two bounds in the behaviours of SpecCascade.
MaxCascadeNow == 5
MaxCascadeHistory == 5
\* The two bounds in the behaviours of SpecRename.
MaxRenameNow == 4
MaxRenameHistory == 5
\* The two bounds in the behaviours of SpecTools.
MaxToolsNow == 5
MaxToolsHistory == 4
\* The two bounds in the behaviours of SpecIdentity, the length of the chat
\* transcript and the value of idCounter there.
MaxIdentityNow == 2
MaxIdentityHistory == 3
MaxMessages == 4
MaxIdCounter == 7
\* The two bounds in the behaviours of SpecLoading.
MaxLoadingNow == 2
MaxLoadingHistory == 2
\* The two bounds in the behaviours of SpecRequests, and the number of
\* callbacks in flight.
MaxRequestsNow == 1
MaxRequestsHistory == 1
MaxInFlight == 2
\* The two bounds in the behaviours of SpecImport.
MaxImportNow == 2
MaxImportHistory == 2
\* The two bounds in the behaviours of SpecChat.
MaxChatNow == 2
MaxChatHistory == 2
\* The two bounds in the behaviours of SpecProjects, and the number of
\* projects.
MaxProjectsNow == 4
MaxProjectsHistory == 1
MaxProjects == 3

VARIABLES
    projects,         \* useState<Project[]>
    activeProjectId,  \* useState<string | null>
    error,            \* useState<string | null>
    now,              \* Date.now()
    activeTool,       \* useState<ActiveTool>
    connectionSource, \* SchemaGraph's useState<string | null>
    idCounter,        \* the module's let idCounter
    isLoading,        \* useState(false)
    pending,          \* the callbacks in flight: what each continuation closed over
    storage,          \* localStorage: vibedb_projects and vibedb_activeProjectId
    obs               \* the observer of the history claims (not program state)

vars == <<projects, activeProjectId, error, now, activeTool, connectionSource,
          idCounter, isLoading, pending, storage, obs>>

\* -------------------------------------------------------------- JS values
Undefined == "<undefined>"
NoError == "<null>"
NoSource == "<null>"
NoProjectId == "<null>"
\* The closure of no callback: the fields a callback in flight keeps.
NoPending == [kind |-> "none", activeProjectId |-> "", schema |-> [isNull |-> TRUE, tables |-> <<>>],
              undoStack |-> <<>>, ddl |-> "", newMessages |-> <<>>, ddlText |-> ""]

NumUndefined == [kind |-> "undefined", v |-> 0]
NumNaN == [kind |-> "NaN", v |-> 0]
NumNull == [kind |-> "null", v |-> 0]
Num(n) == [kind |-> "number", v |-> n]

\* One pixel, in model units: every junction midpoint halves a sum of
\* coordinates, and at most MaxCascadeNow junction tables are ever created.
PosUnit == 2 ^ (MaxCascadeNow + 1)

\* a + b of two optional numbers: undefined or NaN operands give NaN, null
\* converts to 0.
JsAdd(a, b) ==
    IF a.kind \in {"undefined", "NaN"} \/ b.kind \in {"undefined", "NaN"}
    THEN NumNaN
    ELSE Num((IF a.kind = "null" THEN 0 ELSE a.v) + (IF b.kind = "null" THEN 0 ELSE b.v))

\* a / 2
JsHalf(a) ==
    CASE a.kind \in {"undefined", "NaN"} -> NumNaN
      [] a.kind = "null" -> Num(0)
      [] OTHER -> Num(a.v \div 2)

\* JSON.parse(JSON.stringify(n)) of an optional number as an object property:
\* an undefined property is dropped, NaN is written as null.
JsonNum(n) == IF n.kind = "NaN" THEN NumNull ELSE n

NullSchema == [isNull |-> TRUE, tables |-> <<>>]
MkSchema(ts) == [isNull |-> FALSE, tables |-> ts]

\* JSON.parse(JSON.stringify(schema)) of a non-null schema.
JsonClone(schema) ==
    MkSchema([i \in 1..Len(schema.tables) |->
        [schema.tables[i] EXCEPT !.x = JsonNum(@), !.y = JsonNum(@)]])

\* ----------------------------------------------------------- seq helpers
\* Array.prototype.findIndex, given the set of indices whose element passes
\* the test: the first of them, 0 when there is none.
First(hits) ==
    IF hits = {} THEN 0 ELSE CHOOSE i \in hits : \A j \in hits : i <= j

TableIdx(schema, tableId) ==
    First({i \in 1..Len(schema.tables) : schema.tables[i].id = tableId})
ColumnIdx(table, columnId) ==
    First({i \in 1..Len(table.columns) : table.columns[i].id = columnId})
\* columns.find(c => c.isPrimaryKey): index of the first primary-key column.
PkIdx(table) ==
    First({i \in 1..Len(table.columns) : table.columns[i].isPrimaryKey})

\* ------------------------------------------------------- the app state
\* The handlers are functions of the state the render closed over; St is
\* that state as one record.
St == [projects |-> projects, activeProjectId |-> activeProjectId,
       error |-> error, now |-> now,
       activeTool |-> activeTool, connectionSource |-> connectionSource,
       idCounter |-> idCounter, isLoading |-> isLoading, pending |-> pending]

ActiveIdx(s) ==
    First({i \in 1..Len(s.projects) : s.projects[i].id = s.activeProjectId})
HasActive(s) == ActiveIdx(s) # 0
ActiveProject(s) == s.projects[ActiveIdx(s)]

\* updateActiveProject without the test of the project's id.
updateActiveProject_Every(s, updates) ==
    [s EXCEPT !.projects = [i \in 1..Len(s.projects) |->
        [f \in DOMAIN s.projects[i] |->
            IF f \in DOMAIN updates THEN updates[f] ELSE s.projects[i][f]]]]

\* updateActiveProject: a functional update of every project whose id is the
\* active one. Updates is a function from field names to new values.
updateActiveProject(s, updates) ==
    [s EXCEPT !.projects = [i \in 1..Len(s.projects) |->
        IF s.projects[i].id = s.activeProjectId
        THEN [f \in DOMAIN s.projects[i] |->
                IF f \in DOMAIN updates THEN updates[f] ELSE s.projects[i][f]]
        ELSE s.projects[i]]]

\* ------------------------------------------------------------ the projects
NewProject(id, name) ==
    [id |-> id, name |-> name, schema |-> NullSchema, messages |-> <<>>,
     ddl |-> "", undoStack |-> <<>>, redoStack |-> <<>>]

handleCreateProject(s) ==
    LET newProject == NewProject("proj-" \o ToString(s.now),
                                 "Untitled Schema " \o ToString(Len(s.projects) + 1))
    IN [s EXCEPT !.projects = Append(@, newProject),
                 !.activeProjectId = newProject.id,
                 !.now = s.now + 1]

handleSwitchProject(s, projectId) ==
    [s EXCEPT !.activeProjectId = projectId]

\* confirmed: what window.confirm returns. first: the id of
\* remainingProjects[0], null when nothing remains; the project menu sorts the
\* array in place by lastModified, so any remaining project can be the first.
handleDeleteProject(s, projectId, confirmed, first) ==
    IF ~confirmed THEN s
    ELSE LET Remains(q) == q.id # projectId
             remainingProjects == SelectSeq(s.projects, Remains)
         IN [s EXCEPT !.projects = remainingProjects,
                      !.activeProjectId =
                            IF s.activeProjectId = projectId THEN first ELSE @]

handleRenameProject(s, projectId, newName) ==
    [s EXCEPT !.projects = [i \in 1..Len(s.projects) |->
        IF s.projects[i].id = projectId
        THEN [s.projects[i] EXCEPT !.name = newName]
        ELSE s.projects[i]]]

\* ------------------------------------------------------------ localStorage
\* vibedb_projects is missing, a string JSON.parse throws on, or the string
\* of a list of projects, kept here as the list that was written;
\* vibedb_activeProjectId is an id or null.
NoStorage == [projects |-> [kind |-> "missing", list |-> <<>>],
              activeProjectId |-> NoProjectId]

\* The save effect on [projects, activeProjectId].
saveProjects(stored, s) ==
    [projects |-> IF Len(s.projects) > 0
                  THEN [kind |-> "list", list |-> s.projects]
                  ELSE stored.projects,
     activeProjectId |-> IF s.activeProjectId \notin {NoProjectId, ""}
                         THEN s.activeProjectId
                         ELSE stored.activeProjectId]

\* JSON.parse(JSON.stringify(project)).
JsonCloneSchema(schema) == IF schema.isNull THEN schema ELSE JsonClone(schema)
JsonCloneProject(q) ==
    [q EXCEPT !.schema = JsonCloneSchema(@),
              !.undoStack = [i \in 1..Len(@) |-> JsonCloneSchema(@[i])],
              !.redoStack = [i \in 1..Len(@) |-> JsonCloneSchema(@[i])]]

\* The state of a page just opened at time t, before its effects have run.
Unmounted(t) ==
    [projects |-> <<>>, activeProjectId |-> NoProjectId, error |-> NoError,
     now |-> t, activeTool |-> "select", connectionSource |-> NoSource,
     idCounter |-> 0, isLoading |-> FALSE, pending |-> <<>>]

\* The load effect of a page opened at time t over what is stored.
loadProjects(stored, t) ==
    IF stored.projects.kind = "missing"
    THEN [Unmounted(t) EXCEPT
            !.projects = <<NewProject("proj-" \o ToString(t), "My First Schema")>>,
            !.activeProjectId = "proj-" \o ToString(t),
            !.now = t + 1]
    ELSE IF stored.projects.kind = "corrupt"
    THEN Unmounted(t)
    ELSE LET loadedProjects == [i \in 1..Len(stored.projects.list) |->
                                    JsonCloneProject(stored.projects.list[i])]
             savedActiveId == stored.activeProjectId
         IN [Unmounted(t) EXCEPT
                !.projects = loadedProjects,
                !.activeProjectId =
                    IF /\ savedActiveId \notin {NoProjectId, ""}
                       /\ \E i \in 1..Len(loadedProjects) :
                            loadedProjects[i].id = savedActiveId
                    THEN savedActiveId
                    ELSE IF Len(loadedProjects) > 0 THEN loadedProjects[1].id
                    ELSE NoProjectId]

\* What the load effect leaves in localStorage: its catch block removes both
\* keys.
loadStorage(stored) ==
    IF stored.projects.kind = "corrupt" THEN NoStorage ELSE stored

\* commitSchemaChange without `redoStack: []`.
commitSchemaChange_KeepRedo(s, newSchema) ==
    IF ~HasActive(s) THEN s
    ELSE LET p == ActiveProject(s) IN
         updateActiveProject(s,
            [schema |-> newSchema,
             undoStack |-> Append(p.undoStack, p.schema),
             ddl |-> IF newSchema.isNull THEN "" ELSE p.ddl])

commitSchemaChange(s, newSchema) ==
    IF ~HasActive(s) THEN s
    ELSE LET p == ActiveProject(s) IN
         updateActiveProject(s,
            [schema |-> newSchema,
             undoStack |-> Append(p.undoStack, p.schema),
             redoStack |-> <<>>,
             ddl |-> IF newSchema.isNull THEN "" ELSE p.ddl])

\* handleUndo taking undoStack[0] instead of the last element.
handleUndo_FromBottom(s) ==
    IF ~HasActive(s) \/ Len(ActiveProject(s).undoStack) = 0 THEN s
    ELSE LET p == ActiveProject(s)
             previousSchema == p.undoStack[1]
         IN updateActiveProject(s,
            [schema |-> previousSchema,
             undoStack |-> SubSeq(p.undoStack, 1, Len(p.undoStack) - 1),
             redoStack |-> <<p.schema>> \o p.redoStack,
             ddl |-> IF previousSchema.isNull THEN "" ELSE p.ddl])

handleUndo(s) ==
    IF ~HasActive(s) \/ Len(ActiveProject(s).undoStack) = 0 THEN s
    ELSE LET p == ActiveProject(s)
             previousSchema == p.undoStack[Len(p.undoStack)]
         IN updateActiveProject(s,
            [schema |-> previousSchema,
             undoStack |-> SubSeq(p.undoStack, 1, Len(p.undoStack) - 1),
             redoStack |-> <<p.schema>> \o p.redoStack,
             ddl |-> IF previousSchema.isNull THEN "" ELSE p.ddl])

\* handleRedo without the shift of the redo stack.
handleRedo_KeepRedo(s) ==
    IF ~HasActive(s) \/ Len(ActiveProject(s).redoStack) = 0 THEN s
    ELSE LET p == ActiveProject(s)
             nextSchema == Head(p.redoStack)
         IN updateActiveProject(s,
            [schema |-> nextSchema,
             undoStack |-> Append(p.undoStack, p.schema),
             ddl |-> IF nextSchema.isNull THEN "" ELSE p.ddl])

\* handleRedo without pushing the current schema on the undo stack.
handleRedo_NoPush(s) ==
    IF ~HasActive(s) \/ Len(ActiveProject(s).redoStack) = 0 THEN s
    ELSE LET p == ActiveProject(s)
             nextSchema == Head(p.redoStack)
         IN updateActiveProject(s,
            [schema |-> nextSchema,
             redoStack |-> Tail(p.redoStack),
             ddl |-> IF nextSchema.isNull THEN "" ELSE p.ddl])

handleRedo(s) ==
    IF ~HasActive(s) \/ Len(ActiveProject(s).redoStack) = 0 THEN s
    ELSE LET p == ActiveProject(s)
             nextSchema == Head(p.redoStack)
         IN updateActiveProject(s,
            [schema |-> nextSchema,
             undoStack |-> Append(p.undoStack, p.schema),
             redoStack |-> Tail(p.redoStack),
             ddl |-> IF nextSchema.isNull THEN "" ELSE p.ddl])

\* ------------------------------------------------------------ name minting
RECURSIVE MintSuffixed(_, _, _)
\* handleAddTable / handleAddColumn: base when unused, else base_k for the
\* first k >= 2 for which base_k is unused.
MintSuffixed(base, used, counter) ==
    LET candidate == IF counter > 1 THEN base \o "_" \o ToString(counter) ELSE base
    IN IF candidate \in used THEN MintSuffixed(base, used, counter + 1) ELSE candidate

TableNames(schema) == {schema.tables[i].name : i \in 1..Len(schema.tables)}
ColumnNames(table) == {table.columns[i].name : i \in 1..Len(table.columns)}

\* ------------------------------------------------------------ handleAddTable
\* handleAddTable without the while loop over the names in use.
handleAddTable_NoSuffix(s, position) ==
    IF ~HasActive(s) THEN s
    ELSE LET p == ActiveProject(s)
             currentSchema == IF p.schema.isNull THEN MkSchema(<<>>) ELSE p.schema
             newTableName == "new_table"
             tableId == "table-" \o newTableName \o "-" \o ToString(s.now)
             newTable == [id |-> tableId,
                          name |-> newTableName,
                          columns |-> <<[id |-> tableId \o "-col-id",
                                         name |-> "id",
                                         type |-> "INTEGER",
                                         isPrimaryKey |-> TRUE,
                                         isForeignKey |-> FALSE,
                                         foreignKeyTable |-> Undefined,
                                         foreignKeyColumn |-> Undefined,
                                         constraints |-> <<"NOT NULL">>]>>,
                          x |-> position.x,
                          y |-> position.y]
             updatedSchema == MkSchema(Append(currentSchema.tables, newTable))
             s1 == IF Len(p.messages) = 0
                   THEN updateActiveProject(s, [messages |->
                          <<[sender |-> "ai",
                             text |-> "Started a new schema and added table \""
                                      \o newTableName \o "\"."]>>])
                   ELSE s
         IN [commitSchemaChange(s1, updatedSchema) EXCEPT !.now = s.now + 1]

handleAddTable(s, position) ==
    IF ~HasActive(s) THEN s
    ELSE LET p == ActiveProject(s)
             currentSchema == IF p.schema.isNull THEN MkSchema(<<>>) ELSE p.schema
             newTableName == MintSuffixed("new_table", TableNames(currentSchema), 1)
             tableId == "table-" \o newTableName \o "-" \o ToString(s.now)
             newTable == [id |-> tableId,
                          name |-> newTableName,
                          columns |-> <<[id |-> tableId \o "-col-id",
                                         name |-> "id",
                                         type |-> "INTEGER",
                                         isPrimaryKey |-> TRUE,
                                         isForeignKey |-> FALSE,
                                         foreignKeyTable |-> Undefined,
                                         foreignKeyColumn |-> Undefined,
                                         constraints |-> <<"NOT NULL">>]>>,
                          x |-> position.x,
                          y |-> position.y]
             updatedSchema == MkSchema(Append(currentSchema.tables, newTable))
             s1 == IF Len(p.messages) = 0
                   THEN updateActiveProject(s, [messages |->
                          <<[sender |-> "ai",
                             text |-> "Started a new schema and added table \""
                                      \o newTableName \o "\"."]>>])
                   ELSE s
             \* commitSchemaChange reads the schema and the undo stack the
             \* render closed over, which the messages update leaves alone.
         IN [commitSchemaChange(s1, updatedSchema) EXCEPT !.now = s.now + 1]

\* ------------------------------------------------------- handleAddConnection
\* The while loop of the 1-N branch never entered.
MintFkName_NoSuffix(targetName, used, counter) == targetName \o "_id"

RECURSIVE MintFkName(_, _, _)
\* target_id when unused, else target_id_k for the first k >= 2 unused.
MintFkName(targetName, used, counter) ==
    LET candidate == IF counter > 1
                     THEN targetName \o "_id_" \o ToString(counter)
                     ELSE targetName \o "_id"
    IN IF candidate \in used THEN MintFkName(targetName, used, counter + 1) ELSE candidate

\* The while loop of the N-N branch never entered.
MintJunctionName_NoSuffix(base, used, counter) == base

RECURSIVE MintJunctionName(_, _, _)
\* source_target when unused, else source_target_k for the first k >= 2 unused.
MintJunctionName(base, used, counter) ==
    LET candidate == IF counter > 1 THEN base \o "_" \o ToString(counter) ELSE base
    IN IF candidate \in used THEN MintJunctionName(base, used, counter + 1) ELSE candidate

AddOneToN(s, currentSchema, si, ti) ==
    LET sourceTable == currentSchema.tables[si]
        targetTable == currentSchema.tables[ti]
        pk == PkIdx(targetTable)
    IN IF pk = 0
       THEN [s EXCEPT !.error = "Cannot create connection: Target table \""
                                 \o targetTable.name \o "\" has no primary key."]
       ELSE LET targetPk == targetTable.columns[pk]
                fkColumnName == MintFkName(targetTable.name, ColumnNames(sourceTable), 1)
                newFkColumn == [id |-> "col-" \o sourceTable.id \o "-" \o fkColumnName
                                       \o "-" \o ToString(s.now),
                                name |-> fkColumnName,
                                type |-> targetPk.type,
                                isPrimaryKey |-> FALSE,
                                isForeignKey |-> TRUE,
                                foreignKeyTable |-> targetTable.name,
                                foreignKeyColumn |-> targetPk.name,
                                constraints |-> <<>>]
                newSchema == MkSchema([currentSchema.tables EXCEPT
                                ![si].columns = Append(@, newFkColumn)])
            IN [commitSchemaChange(s, newSchema) EXCEPT !.now = s.now + 1]

AddNToN(s, currentSchema, si, ti) ==
    LET sourceTable == currentSchema.tables[si]
        targetTable == currentSchema.tables[ti]
        spk == PkIdx(sourceTable)
        tpk == PkIdx(targetTable)
    IN IF spk = 0 \/ tpk = 0
       THEN [s EXCEPT !.error =
                "Cannot create N-N connection: Both tables must have a primary key."]
       ELSE LET sourcePk == sourceTable.columns[spk]
                targetPk == targetTable.columns[tpk]
                junctionTableName ==
                    MintJunctionName(sourceTable.name \o "_" \o targetTable.name,
                                     TableNames(currentSchema), 1)
                junctionTableId == "table-" \o junctionTableName \o "-" \o ToString(s.now)
                fkCol1 == [id |-> "col-" \o junctionTableId \o "-" \o sourceTable.name
                                  \o "_id-" \o ToString(s.now),
                           name |-> sourceTable.name \o "_id",
                           type |-> sourcePk.type,
                           isPrimaryKey |-> TRUE,
                           isForeignKey |-> TRUE,
                           foreignKeyTable |-> sourceTable.name,
                           foreignKeyColumn |-> sourcePk.name,
                           constraints |-> <<"NOT NULL">>]
                fkCol2 == [id |-> "col-" \o junctionTableId \o "-" \o targetTable.name
                                  \o "_id-" \o ToString(s.now),
                           name |-> targetTable.name \o "_id",
                           type |-> targetPk.type,
                           isPrimaryKey |-> TRUE,
                           isForeignKey |-> TRUE,
                           foreignKeyTable |-> targetTable.name,
                           foreignKeyColumn |-> targetPk.name,
                           constraints |-> <<"NOT NULL">>]
                junctionTable == [id |-> junctionTableId,
                                  name |-> junctionTableName,
                                  columns |-> <<fkCol1, fkCol2>>,
                                  x |-> JsHalf(JsAdd(sourceTable.x, targetTable.x)),
                                  y |-> JsHalf(JsAdd(sourceTable.y, targetTable.y))]
                newSchema == MkSchema(Append(currentSchema.tables, junctionTable))
            IN [commitSchemaChange(s, newSchema) EXCEPT !.now = s.now + 1]

\* type is "1-to-n" or "n-to-n".
handleAddConnection(s, sourceTableId, targetTableId, type) ==
    IF ~HasActive(s) \/ ActiveProject(s).schema.isNull THEN s
    ELSE LET currentSchema == JsonClone(ActiveProject(s).schema)
             si == TableIdx(currentSchema, sourceTableId)
             ti == TableIdx(currentSchema, targetTableId)
         IN IF si = 0 \/ ti = 0
            THEN [s EXCEPT !.error = "Source or target table not found for connection."]
            ELSE IF type = "1-to-n" THEN AddOneToN(s, currentSchema, si, ti)
            ELSE IF type = "n-to-n" THEN AddNToN(s, currentSchema, si, ti)
            ELSE s

\* --------------------------------------------------------- handleUpdateTable
\* !oldName: the table is missing, or its name is the empty string.
Falsy(str) == str = Undefined \/ str = ""

\* The strings s of the model for which s.trim() is empty.
BlankTexts == {"", "   "}

RenameForeignKeys(tables, oldName, newName) ==
    [i \in 1..Len(tables) |->
        [tables[i] EXCEPT !.columns = [j \in 1..Len(@) |->
            IF @[j].isForeignKey /\ @[j].foreignKeyTable = oldName
            THEN [@[j] EXCEPT !.foreignKeyTable = newName]
            ELSE @[j]]]]

\* handleUpdateTable without the name-clash check.
handleUpdateTable_NoClashCheck(s, tableId, newName) ==
    IF ~HasActive(s) \/ ActiveProject(s).schema.isNull THEN s
    ELSE LET schema == ActiveProject(s).schema
             ti == TableIdx(schema, tableId)
             oldName == IF ti = 0 THEN Undefined ELSE schema.tables[ti].name
         IN IF Falsy(oldName) THEN s
            ELSE LET cloned == JsonClone(schema)
                     renamed == [cloned.tables EXCEPT ![ti].name = newName]
                 IN commitSchemaChange(s,
                        MkSchema(RenameForeignKeys(renamed, oldName, newName)))

handleUpdateTable(s, tableId, newName) ==
    IF ~HasActive(s) \/ ActiveProject(s).schema.isNull THEN s
    ELSE LET schema == ActiveProject(s).schema
             Clash(t) == t.name = newName /\ t.id # tableId
             ti == TableIdx(schema, tableId)
             oldName == IF ti = 0 THEN Undefined ELSE schema.tables[ti].name
         IN IF \E i \in 1..Len(schema.tables) : Clash(schema.tables[i])
            THEN [s EXCEPT !.error = "A table with the name \"" \o newName
                                      \o "\" already exists."]
            ELSE IF Falsy(oldName) THEN s
            ELSE LET cloned == JsonClone(schema)
                     renamed == [cloned.tables EXCEPT ![ti].name = newName]
                 IN commitSchemaChange(s,
                        MkSchema(RenameForeignKeys(renamed, oldName, newName)))

\* ----------------------------------------------------------- handleAddColumn
handleAddColumn(s, tableId) ==
    IF ~HasActive(s) \/ ActiveProject(s).schema.isNull THEN s
    ELSE LET updatedSchema == JsonClone(ActiveProject(s).schema)
             ti == TableIdx(updatedSchema, tableId)
         IN IF ti = 0 THEN s
            ELSE LET tableToUpdate == updatedSchema.tables[ti]
                     newColName == MintSuffixed("new_column", ColumnNames(tableToUpdate), 1)
                     newColumn == [id |-> "col-" \o tableToUpdate.id \o "-" \o newColName
                                          \o "-" \o ToString(s.now),
                                   name |-> newColName,
                                   type |-> "VARCHAR(255)",
                                   isPrimaryKey |-> FALSE,
                                   isForeignKey |-> FALSE,
                                   foreignKeyTable |-> Undefined,
                                   foreignKeyColumn |-> Undefined,
                                   constraints |-> <<>>]
                     newSchema == MkSchema([updatedSchema.tables EXCEPT
                                     ![ti].columns = Append(@, newColumn)])
                 IN [commitSchemaChange(s, newSchema) EXCEPT !.now = s.now + 1]

\* ------------------------------------------------- ColumnEditor.handleSave
RECURSIVE Dedup(_)
\* [...new Set(seq)]: the first occurrence of every element, in order.
Dedup(seq) ==
    IF Len(seq) = 0 THEN <<>>
    ELSE LET init == Dedup(SubSeq(seq, 1, Len(seq) - 1))
             last == seq[Len(seq)]
         IN IF \E i \in 1..Len(init) : init[i] = last THEN init ELSE Append(init, last)

\* form: the editor's fields [name, type, isPrimaryKey, isNotNull, isUnique].
EditorSave(column, form) ==
    LET Other(c) == c # "NOT NULL" /\ c # "UNIQUE"
        kept == SelectSeq(column.constraints, Other)
        withNotNull == IF form.isNotNull THEN Append(kept, "NOT NULL") ELSE kept
        withUnique == IF form.isUnique THEN Append(withNotNull, "UNIQUE") ELSE withNotNull
    IN [column EXCEPT !.name = form.name,
                      !.type = form.type,
                      !.isPrimaryKey = form.isPrimaryKey,
                      !.constraints = Dedup(withUnique)]

\* ------------------------------------------------- handleUpdateColumnDetails
\* The propagation loop comparing the column name only.
RenameForeignKeyColumns_AnyTable(tables, tableName, oldColumnName, newColumnName) ==
    [i \in 1..Len(tables) |->
        [tables[i] EXCEPT !.columns = [j \in 1..Len(@) |->
            IF @[j].isForeignKey /\ @[j].foreignKeyColumn = oldColumnName
            THEN [@[j] EXCEPT !.foreignKeyColumn = newColumnName]
            ELSE @[j]]]]

RenameForeignKeyColumns(tables, tableName, oldColumnName, newColumnName) ==
    [i \in 1..Len(tables) |->
        [tables[i] EXCEPT !.columns = [j \in 1..Len(@) |->
            IF /\ @[j].isForeignKey
               /\ @[j].foreignKeyTable = tableName
               /\ @[j].foreignKeyColumn = oldColumnName
            THEN [@[j] EXCEPT !.foreignKeyColumn = newColumnName]
            ELSE @[j]]]]

\* handleUpdateColumnDetails without the sibling-name check.
handleUpdateColumnDetails_NoClashCheck(s, tableId, columnId, updatedColumn) ==
    IF ~HasActive(s) \/ ActiveProject(s).schema.isNull THEN s
    ELSE LET updatedSchema == JsonClone(ActiveProject(s).schema)
             ti == TableIdx(updatedSchema, tableId)
         IN IF ti = 0 THEN s
            ELSE LET tableToUpdate == updatedSchema.tables[ti]
                     columnIndex == ColumnIdx(tableToUpdate, columnId)
                 IN IF columnIndex = 0 THEN s
                    ELSE LET oldColumn == tableToUpdate.columns[columnIndex]
                             replaced == [updatedSchema.tables EXCEPT
                                            ![ti].columns[columnIndex] = updatedColumn]
                             propagated ==
                                IF oldColumn.isPrimaryKey /\ oldColumn.name # updatedColumn.name
                                THEN RenameForeignKeyColumns(replaced, tableToUpdate.name,
                                                             oldColumn.name, updatedColumn.name)
                                ELSE replaced
                         IN commitSchemaChange(s, MkSchema(propagated))

handleUpdateColumnDetails(s, tableId, columnId, updatedColumn) ==
    IF ~HasActive(s) \/ ActiveProject(s).schema.isNull THEN s
    ELSE LET updatedSchema == JsonClone(ActiveProject(s).schema)
             ti == TableIdx(updatedSchema, tableId)
         IN IF ti = 0 THEN s
            ELSE LET tableToUpdate == updatedSchema.tables[ti]
                     Clash(c) == c.name = updatedColumn.name /\ c.id # columnId
                     columnIndex == ColumnIdx(tableToUpdate, columnId)
                 IN IF \E i \in 1..Len(tableToUpdate.columns) : Clash(tableToUpdate.columns[i])
                    THEN [s EXCEPT !.error = "A column named \"" \o updatedColumn.name
                                     \o "\" already exists in table \""
                                     \o tableToUpdate.name \o "\"."]
                    ELSE IF columnIndex = 0 THEN s
                    ELSE LET oldColumn == tableToUpdate.columns[columnIndex]
                             replaced == [updatedSchema.tables EXCEPT
                                            ![ti].columns[columnIndex] = updatedColumn]
                             propagated ==
                                IF oldColumn.isPrimaryKey /\ oldColumn.name # updatedColumn.name
                                THEN RenameForeignKeyColumns(replaced, tableToUpdate.name,
                                                             oldColumn.name, updatedColumn.name)
                                ELSE replaced
                         IN commitSchemaChange(s, MkSchema(propagated))

\* -------------------------------------------------------- handleDeleteColumn
\* The first (table index, column index) in iteration order whose column is a
\* foreign key to (tableName, columnName); <<0, 0>> when there is none.
\* FirstReference comparing the table name only.
FirstReference_AnyColumn(tables, tableName, columnName) ==
    LET Refers(c) == c.isForeignKey /\ c.foreignKeyTable = tableName
        Hits(t) == {j \in 1..Len(t.columns) : Refers(t.columns[j])}
        i == First({k \in 1..Len(tables) : Hits(tables[k]) # {}})
    IN IF i = 0 THEN <<0, 0>> ELSE <<i, First(Hits(tables[i]))>>

FirstReference(tables, tableName, columnName) ==
    LET Refers(c) == /\ c.isForeignKey
                     /\ c.foreignKeyTable = tableName
                     /\ c.foreignKeyColumn = columnName
        Hits(t) == {j \in 1..Len(t.columns) : Refers(t.columns[j])}
        i == First({k \in 1..Len(tables) : Hits(tables[k]) # {}})
    IN IF i = 0 THEN <<0, 0>> ELSE <<i, First(Hits(tables[i]))>>

\* handleDeleteColumn without the reference scan.
handleDeleteColumn_NoReferenceScan(s, tableId, columnId) ==
    IF ~HasActive(s) \/ ActiveProject(s).schema.isNull THEN s
    ELSE LET schema == ActiveProject(s).schema
             ti == TableIdx(schema, tableId)
             ci == IF ti = 0 THEN 0 ELSE ColumnIdx(schema.tables[ti], columnId)
         IN IF ti = 0 \/ ci = 0 THEN s
            ELSE LET Keep(c) == c.id # columnId
                     updatedTables == [i \in 1..Len(schema.tables) |->
                        IF schema.tables[i].id = tableId
                        THEN [schema.tables[i] EXCEPT !.columns = SelectSeq(@, Keep)]
                        ELSE schema.tables[i]]
                 IN commitSchemaChange(s, MkSchema(updatedTables))

handleDeleteColumn(s, tableId, columnId) ==
    IF ~HasActive(s) \/ ActiveProject(s).schema.isNull THEN s
    ELSE LET schema == ActiveProject(s).schema
             ti == TableIdx(schema, tableId)
             ci == IF ti = 0 THEN 0 ELSE ColumnIdx(schema.tables[ti], columnId)
         IN IF ti = 0 \/ ci = 0 THEN s
            ELSE LET tableToDeleteFrom == schema.tables[ti]
                     columnToDelete == tableToDeleteFrom.columns[ci]
                     ref == FirstReference(schema.tables, tableToDeleteFrom.name,
                                           columnToDelete.name)
                     Keep(c) == c.id # columnId
                     updatedTables == [i \in 1..Len(schema.tables) |->
                        IF schema.tables[i].id = tableId
                        THEN [schema.tables[i] EXCEPT !.columns = SelectSeq(@, Keep)]
                        ELSE schema.tables[i]]
                 IN IF ref[1] # 0
                    THEN [s EXCEPT !.error =
                            "Cannot delete column \"" \o columnToDelete.name
                            \o "\". It is referenced by \"" \o schema.tables[ref[1]].name
                            \o "." \o schema.tables[ref[1]].columns[ref[2]].name \o "\"."]
                    ELSE commitSchemaChange(s, MkSchema(updatedTables))

\* --------------------------------------------------------- handleDeleteTable
\* handleDeleteTable without the foreign-key cleanup.
handleDeleteTable_NoCleanup(s, tableId, confirmed) ==
    IF ~HasActive(s) \/ ActiveProject(s).schema.isNull THEN s
    ELSE LET schema == ActiveProject(s).schema
             ti == TableIdx(schema, tableId)
         IN IF ti = 0 THEN s
            ELSE IF ~confirmed THEN s
            ELSE LET Remains(t) == t.id # tableId
                 IN commitSchemaChange(s, MkSchema(SelectSeq(schema.tables, Remains)))

\* confirmed: what window.confirm returns.
handleDeleteTable(s, tableId, confirmed) ==
    IF ~HasActive(s) \/ ActiveProject(s).schema.isNull THEN s
    ELSE LET schema == ActiveProject(s).schema
             ti == TableIdx(schema, tableId)
         IN IF ti = 0 THEN s
            ELSE IF ~confirmed THEN s
            ELSE LET tableToDelete == schema.tables[ti]
                     Remains(t) == t.id # tableId
                     remainingTables == SelectSeq(schema.tables, Remains)
                     Clean(c) == ~(c.isForeignKey /\ c.foreignKeyTable = tableToDelete.name)
                     cleanedTables == [i \in 1..Len(remainingTables) |->
                        [remainingTables[i] EXCEPT !.columns = SelectSeq(@, Clean)]]
                 IN commitSchemaChange(s, MkSchema(cleanedTables))

\* ------------------------------------------------- SchemaGraph: the node set
\* The structural junction test of the nodes/links memo.
IsPk(c) == c.isPrimaryKey
IsFk(c) == c.isForeignKey
IsJunction(table) ==
    /\ Len(table.columns) = 2
    /\ Len(SelectSeq(table.columns, IsPk)) = 2
    /\ Len(SelectSeq(table.columns, IsFk)) = 2

junctionTableIds(schema) ==
    {schema.tables[i].id : i \in {k \in 1..Len(schema.tables) : IsJunction(schema.tables[k])}}

\* The ids of the rendered nodes: the tables that are not junction tables.
NodeIds(schema) ==
    IF schema.isNull THEN {}
    ELSE {schema.tables[i].id : i \in 1..Len(schema.tables)} \ junctionTableIds(schema)

\* ------------------------------------------------ SchemaGraph: the links
\* new Map(schema.tables.map(t => [t.name, t])).get(name): the index of the
\* last table of that name, 0 when the map has no such key.
tableMap(schema, name) ==
    LET hits == {i \in 1..Len(schema.tables) : schema.tables[i].name = name}
    IN IF hits = {} THEN 0 ELSE CHOOSE i \in hits : \A j \in hits : j <= i

NoLink == [source |-> Undefined, target |-> Undefined, type |-> "none"]
IsLink(link) == link.type # "none"

\* junctionTableIds in insertion order.
junctionIdSeq(schema) ==
    LET junctions == SelectSeq(schema.tables, IsJunction)
    IN Dedup([i \in 1..Len(junctions) |-> junctions[i].id])

\* The body of junctionTableIds.forEach: the link of one junction table, if
\* the map holds both tables its foreign keys name.
junctionLink(schema, jId) ==
    LET fks == SelectSeq(schema.tables[TableIdx(schema, jId)].columns, IsFk)
        table1 == tableMap(schema, fks[1].foreignKeyTable)
        table2 == tableMap(schema, fks[2].foreignKeyTable)
    IN IF table1 # 0 /\ table2 # 0
       THEN [source |-> schema.tables[table1].id,
             target |-> schema.tables[table2].id,
             type |-> "n-to-n"]
       ELSE NoLink

\* The body of table.columns.forEach for a table that is not a junction.
columnLink(schema, table, column) ==
    IF column.isForeignKey /\ ~Falsy(column.foreignKeyTable)
    THEN LET targetTable == tableMap(schema, column.foreignKeyTable)
         IN IF targetTable # 0
               /\ schema.tables[targetTable].id \notin junctionTableIds(schema)
            THEN [source |-> table.id,
                  target |-> schema.tables[targetTable].id,
                  type |-> "1-to-n"]
            ELSE NoLink
    ELSE NoLink

tableLinks(schema, table) ==
    IF table.id \in junctionTableIds(schema) THEN <<>>
    ELSE SelectSeq([j \in 1..Len(table.columns) |->
                        columnLink(schema, table, table.columns[j])], IsLink)

RECURSIVE foreignKeyLinks(_, _)
\* The links the second schema.tables.forEach pushes for the first n tables.
foreignKeyLinks(schema, n) ==
    IF n = 0 THEN <<>>
    ELSE foreignKeyLinks(schema, n - 1) \o tableLinks(schema, schema.tables[n])

finalLinks(schema) ==
    IF schema.isNull THEN <<>>
    ELSE LET ids == junctionIdSeq(schema)
         IN SelectSeq([k \in 1..Len(ids) |-> junctionLink(schema, ids[k])], IsLink)
            \o foreignKeyLinks(schema, Len(schema.tables))

\* ------------------------------------------------ identifiers of a schema
\* name.replace(/\s+/g, '_'), for the names that occur in the model.
Underscored(name) == IF name = "order items" THEN "order_items" ELSE name

\* new Map(seq.map(e => [e.name, e])).get(name): the index of the last element
\* of that name, 0 when there is none.
NamedIdx(seq, name) ==
    LET hits == {i \in 1..Len(seq) : seq[i].name = name}
    IN IF hits = {} THEN 0 ELSE CHOOSE i \in hits : \A j \in hits : j <= i

\* a ?? b tests a for null and undefined.
Nullish(n) == n.kind \in {"undefined", "null"}

RECURSIVE IdsBefore(_, _)
\* How many times initializeSchemaIds has evaluated idCounter++ when it is
\* done with the first n tables.
IdsBefore(tables, n) ==
    IF n = 0 THEN 0 ELSE IdsBefore(tables, n - 1) + 1 + Len(tables[n].columns)

\* The schema initializeSchemaIds returns and the counter it leaves.
initializeSchemaIds(schema, counter) ==
    LET Start(i) == counter + IdsBefore(schema.tables, i - 1)
        TableId(i) == "table-" \o Underscored(schema.tables[i].name)
                      \o "-" \o ToString(Start(i))
    IN [schema |-> MkSchema([i \in 1..Len(schema.tables) |->
            [schema.tables[i] EXCEPT
                !.id = TableId(i),
                !.columns = [j \in 1..Len(@) |->
                    [@[j] EXCEPT !.id = "col-" \o TableId(i) \o "-"
                        \o Underscored(schema.tables[i].columns[j].name) \o "-"
                        \o ToString(Start(i) + j)]]]]),
        idCounter |-> counter + IdsBefore(schema.tables, Len(schema.tables))]

RECURSIVE reconcileColumns(_, _, _, _)
\* newTable.columns.map of reconcileSchemaIds; oldColumns is empty when the
\* table has no match.
reconcileColumns(newColumns, oldColumns, tableId, counter) ==
    IF Len(newColumns) = 0 THEN [columns |-> <<>>, idCounter |-> counter]
    ELSE LET done == reconcileColumns(SubSeq(newColumns, 1, Len(newColumns) - 1),
                                      oldColumns, tableId, counter)
             newColumn == newColumns[Len(newColumns)]
             oi == NamedIdx(oldColumns, newColumn.name)
             oldId == IF oi = 0 THEN Undefined ELSE oldColumns[oi].id
         IN IF Falsy(oldId)
            THEN [columns |-> Append(done.columns,
                        [newColumn EXCEPT !.id = "col-" \o tableId \o "-"
                            \o Underscored(newColumn.name) \o "-"
                            \o ToString(done.idCounter)]),
                  idCounter |-> done.idCounter + 1]
            ELSE [columns |-> Append(done.columns, [newColumn EXCEPT !.id = oldId]),
                  idCounter |-> done.idCounter]

RECURSIVE reconcileTables(_, _, _)
\* newSchema.tables.map of reconcileSchemaIds.
reconcileTables(newTables, oldSchema, counter) ==
    IF Len(newTables) = 0 THEN [tables |-> <<>>, idCounter |-> counter]
    ELSE LET done == reconcileTables(SubSeq(newTables, 1, Len(newTables) - 1),
                                     oldSchema, counter)
             newTable == newTables[Len(newTables)]
             oi == NamedIdx(oldSchema.tables, newTable.name)
             oldId == IF oi = 0 THEN Undefined ELSE oldSchema.tables[oi].id
             tableId == IF Falsy(oldId)
                        THEN "table-" \o Underscored(newTable.name) \o "-"
                             \o ToString(done.idCounter)
                        ELSE oldId
             afterId == IF Falsy(oldId) THEN done.idCounter + 1 ELSE done.idCounter
             columns == reconcileColumns(newTable.columns,
                            IF oi = 0 THEN <<>> ELSE oldSchema.tables[oi].columns,
                            tableId, afterId)
         IN [tables |-> Append(done.tables,
                [newTable EXCEPT
                    !.id = tableId,
                    !.x = IF ~Nullish(@) THEN @
                          ELSE IF oi = 0 THEN NumUndefined ELSE oldSchema.tables[oi].x,
                    !.y = IF ~Nullish(@) THEN @
                          ELSE IF oi = 0 THEN NumUndefined ELSE oldSchema.tables[oi].y,
                    !.columns = columns.columns]),
             idCounter |-> columns.idCounter]

\* reconcileSchemaIds minting an identifier for every table and column.
reconcileSchemaIds_AlwaysMint(newSchema, oldSchema, counter) ==
    initializeSchemaIds(newSchema, counter)

\* The schema reconcileSchemaIds returns and the counter it leaves.
reconcileSchemaIds(newSchema, oldSchema, counter) ==
    LET done == reconcileTables(newSchema.tables, oldSchema, counter)
    IN [schema |-> MkSchema(done.tables), idCounter |-> done.idCounter]

\* -------------------------------------------------- handleImportBase64
\* A pasted string is described by what decoding makes of it: kind is
\* "blank" (nothing but white space), "garbage" (atob, inflate or JSON.parse
\* throws, or the value has no tables) or "encoded", and json is then the
\* value JSON.parse returns.
handleImportBase64(s, base64String) ==
    IF base64String.kind = "blank"
    THEN [s EXCEPT !.error = "Base64 input cannot be empty."]
    ELSE IF base64String.kind = "garbage"
    THEN updateActiveProject(
            [s EXCEPT !.error =
                "Failed to parse compressed Base64. Please ensure the string is valid."],
            [schema |-> NullSchema])
    ELSE LET parsedSchema == base64String.json
             needsIds == \E i \in 1..Len(parsedSchema.tables) :
                            \/ Falsy(parsedSchema.tables[i].id)
                            \/ \E j \in 1..Len(parsedSchema.tables[i].columns) :
                                Falsy(parsedSchema.tables[i].columns[j].id)
             withIds == IF needsIds
                        THEN initializeSchemaIds(parsedSchema, s.idCounter)
                        ELSE [schema |-> parsedSchema, idCounter |-> s.idCounter]
             s1 == [s EXCEPT !.error = NoError, !.idCounter = withIds.idCounter]
         IN updateActiveProject(commitSchemaChange(s1, withIds.schema),
                [messages |-> <<[sender |-> "ai",
                                 text |-> "Schema imported from Base64 successfully!"]>>,
                 ddl |-> ""])

\* ---------------------------------------------------- handleSendMessage
\* A functional update of the projects whose id is the one the callback
\* closed over.
updateProject(s, projectId, updates) ==
    [s EXCEPT !.projects = [i \in 1..Len(s.projects) |->
        IF s.projects[i].id = projectId
        THEN [f \in DOMAIN s.projects[i] |->
                IF f \in DOMAIN updates THEN updates[f] ELSE s.projects[i][f]]
        ELSE s.projects[i]]]

\* What the callbacks of the current render have closed over: activeProjectId
\* and the active project's schema, undoStack and ddl.
Closure(s, kind) ==
    LET p == ActiveProject(s)
    IN [NoPending EXCEPT !.kind = kind,
                         !.activeProjectId = s.activeProjectId,
                         !.schema = p.schema,
                         !.undoStack = p.undoStack,
                         !.ddl = p.ddl]

\* The callbacks in flight without the k-th, which has run.
Settled(inFlight, k) == SubSeq(inFlight, 1, k - 1) \o SubSeq(inFlight, k + 1, Len(inFlight))

\* handleSendMessage up to its await: pending keeps what the rest of the
\* function reads from its closure.
handleSendMessage(s, userMessage) ==
    IF ~HasActive(s) THEN s
    ELSE LET p == ActiveProject(s)
             newMessages == Append(p.messages, [sender |-> "user", text |-> userMessage])
         IN [updateActiveProject(s, [messages |-> newMessages]) EXCEPT
                !.isLoading = TRUE,
                !.error = NoError,
                !.pending = Append(@,
                    [Closure(s, IF p.schema.isNull THEN "create" ELSE "modify")
                        EXCEPT !.newMessages = newMessages])]

\* The continuation writing to the project that is active when the answer
\* arrives instead of the one its closure names.
sendMessageResolved_ToActive(s, k, response) ==
    LET q == s.pending[k]
        withIds == IF q.kind = "modify"
                   THEN reconcileSchemaIds(response, q.schema, s.idCounter)
                   ELSE initializeSchemaIds(response, s.idCounter)
        text == IF q.kind = "modify"
                THEN "Schema updated based on your request. What's next?"
                ELSE "I've created a schema for you! How would you like to refine it?"
        committed == updateProject(s, s.activeProjectId,
                        [schema |-> withIds.schema,
                         undoStack |-> Append(q.undoStack, q.schema),
                         redoStack |-> <<>>,
                         ddl |-> IF withIds.schema.isNull THEN "" ELSE q.ddl])
    IN [updateProject(committed, s.activeProjectId,
            [messages |-> Append(q.newMessages, [sender |-> "ai", text |-> text])])
        EXCEPT !.idCounter = withIds.idCounter,
               !.isLoading = FALSE,
               !.pending = Settled(@, k)]

\* handleSendMessage after its await, the AI call having returned the schema
\* response: reconcile or initialize, commit, answer, and the finally block.
sendMessageResolved(s, k, response) ==
    LET q == s.pending[k]
        withIds == IF q.kind = "modify"
                   THEN reconcileSchemaIds(response, q.schema, s.idCounter)
                   ELSE initializeSchemaIds(response, s.idCounter)
        text == IF q.kind = "modify"
                THEN "Schema updated based on your request. What's next?"
                ELSE "I've created a schema for you! How would you like to refine it?"
        committed == updateProject(s, q.activeProjectId,
                        [schema |-> withIds.schema,
                         undoStack |-> Append(q.undoStack, q.schema),
                         redoStack |-> <<>>,
                         ddl |-> IF withIds.schema.isNull THEN "" ELSE q.ddl])
    IN [updateProject(committed, q.activeProjectId,
            [messages |-> Append(q.newMessages, [sender |-> "ai", text |-> text])])
        EXCEPT !.idCounter = withIds.idCounter,
               !.isLoading = FALSE,
               !.pending = Settled(@, k)]

\* handleSendMessage's catch resetting the schema as the imports' catch does.
sendMessageRejected_ResetSchema(s, k) ==
    LET q == s.pending[k]
        errorMessage ==
            "Sorry, I couldn't apply that change. Please try rephrasing your request."
    IN [updateProject(s, q.activeProjectId,
            [schema |-> NullSchema,
             messages |-> Append(q.newMessages, [sender |-> "ai", text |-> errorMessage])])
        EXCEPT !.error = errorMessage,
               !.isLoading = FALSE,
               !.pending = Settled(@, k)]

\* handleSendMessage after its await, the AI call having thrown.
sendMessageRejected(s, k) ==
    LET q == s.pending[k]
        errorMessage ==
            "Sorry, I couldn't apply that change. Please try rephrasing your request."
    IN [updateProject(s, q.activeProjectId,
            [messages |-> Append(q.newMessages, [sender |-> "ai", text |-> errorMessage])])
        EXCEPT !.error = errorMessage,
               !.isLoading = FALSE,
               !.pending = Settled(@, k)]

\* ------------------------------------------------------- handleImportDdl
\* handleImportDdl up to its await, called from a render whose callbacks
\* closed over q.
handleImportDdl(s, q, ddlText) ==
    IF ddlText \in BlankTexts
    THEN [s EXCEPT !.error = "DDL input cannot be empty."]
    ELSE [s EXCEPT !.isLoading = TRUE,
                   !.error = NoError,
                   !.pending = Append(@, [q EXCEPT !.kind = "parseDdl",
                                                   !.ddlText = ddlText])]

\* handleImportDdl after its await, parseDdl having returned the schema
\* response.
importDdlResolved(s, k, response) ==
    LET q == s.pending[k]
        withIds == initializeSchemaIds(response, s.idCounter)
        committed == updateProject(s, q.activeProjectId,
                        [schema |-> withIds.schema,
                         undoStack |-> Append(q.undoStack, q.schema),
                         redoStack |-> <<>>,
                         ddl |-> IF withIds.schema.isNull THEN "" ELSE q.ddl])
    IN [updateProject(committed, q.activeProjectId,
            [messages |-> <<[sender |-> "ai",
                             text |-> "Schema parsed successfully! How can I help you modify it?"]>>,
             ddl |-> q.ddlText])
        EXCEPT !.idCounter = withIds.idCounter,
               !.isLoading = FALSE,
               !.pending = Settled(@, k)]

\* handleImportDdl's catch resetting the schema through commitSchemaChange.
importDdlRejected_Commit(s, k) ==
    LET q == s.pending[k]
    IN [updateProject(s, q.activeProjectId,
            [schema |-> NullSchema,
             undoStack |-> Append(q.undoStack, q.schema),
             redoStack |-> <<>>,
             ddl |-> ""])
        EXCEPT !.error = "Failed to parse DDL. Please check the syntax and try again.",
               !.isLoading = FALSE,
               !.pending = Settled(@, k)]

\* handleImportDdl after its await, parseDdl having thrown.
importDdlRejected(s, k) ==
    LET q == s.pending[k]
    IN [updateProject(s, q.activeProjectId, [schema |-> NullSchema])
        EXCEPT !.error = "Failed to parse DDL. Please check the syntax and try again.",
               !.isLoading = FALSE,
               !.pending = Settled(@, k)]

\* RightPanel's Parse DDL button: onImport(ddl) of the current render.
handleImportClick(s) ==
    IF ~HasActive(s) THEN s
    ELSE handleImportDdl(s, Closure(s, "parseDdl"), ActiveProject(s).ddl)

\* The DDL textarea: setDdl of the current render.
setDdl(s, newDdl) == updateActiveProject(s, [ddl |-> newDdl])

\* RightPanel's handleFileChange: a FileReader is started whose onload keeps
\* setDdl and onImport of the render the file was chosen in.
handleFileChange(s, text) ==
    IF ~HasActive(s) THEN s
    ELSE [s EXCEPT !.pending = Append(@, [Closure(s, "readFile") EXCEPT !.ddlText = text])]

\* The FileReader's onload: setDdl(text), onImport(text).
readerLoaded(s, k) ==
    LET q == s.pending[k]
        s1 == updateProject([s EXCEPT !.pending = Settled(@, k)],
                            q.activeProjectId, [ddl |-> q.ddlText])
    IN handleImportDdl(s1, q, q.ddlText)

\* ------------------------------------- handleExportDdl, handleExportOther
\* Either of the two up to its await; kind is "generateDdl" or
\* "generateCustom".
handleExport(s, kind) ==
    IF ~HasActive(s) \/ ActiveProject(s).schema.isNull
    THEN [s EXCEPT !.error = "No schema to export."]
    ELSE [s EXCEPT !.isLoading = TRUE,
                   !.error = NoError,
                   !.pending = Append(@, Closure(s, kind))]

\* After the await, the call having returned the text.
exportResolved(s, k, output) ==
    [updateProject(s, s.pending[k].activeProjectId, [ddl |-> output])
        EXCEPT !.isLoading = FALSE,
               !.pending = Settled(@, k)]

\* After the await, the call having thrown.
exportRejected(s, k) ==
    [s EXCEPT !.error = IF s.pending[k].kind = "generateDdl"
                        THEN "Failed to generate DDL for export."
                        ELSE "Failed to generate requested export.",
              !.isLoading = FALSE,
              !.pending = Settled(@, k)]

\* ---------------------------------------------- handleUpdateTablePosition
handleUpdateTablePosition(s, tableId, position) ==
    IF ~HasActive(s) \/ ActiveProject(s).schema.isNull THEN s
    ELSE LET schema == ActiveProject(s).schema
         IN updateActiveProject(s, [schema |-> MkSchema(
                [i \in 1..Len(schema.tables) |->
                    IF schema.tables[i].id = tableId
                    THEN [schema.tables[i] EXCEPT !.x = position.x, !.y = position.y]
                    ELSE schema.tables[i]])])

\* The end of a drag of node d, released at position.
dragEnd(s, d, position) ==
    IF s.activeTool # "select" THEN s
    ELSE handleUpdateTablePosition(s, d, position)

\* ------------------------------------------- tools and the click handlers
Tools == {"select", "addTable", "addConnection-1-n", "addConnection-n-n"}
\* activeTool.startsWith('addConnection')
IsConnectionTool(tool) == tool \in {"addConnection-1-n", "addConnection-n-n"}

\* setActiveTool without SchemaGraph's effect on [activeTool].
setActiveTool_KeepSource(s, tool) ==
    [s EXCEPT !.activeTool = tool]

\* setActiveTool, and SchemaGraph's effect on [activeTool], which runs when
\* the tool has changed and clears the connection source.
setActiveTool(s, tool) ==
    [s EXCEPT !.activeTool = tool,
              !.connectionSource = IF tool # s.activeTool THEN NoSource ELSE @]

\* The canvas click handler without its setActiveTool('select').
svgClick_KeepTool(s, position) ==
    IF s.activeTool = "addTable"
    THEN handleAddTable(s, position)
    ELSE s

\* The click handler of the canvas background.
svgClick(s, position) ==
    IF s.activeTool = "addTable"
    THEN setActiveTool(handleAddTable(s, position), "select")
    ELSE s

\* The node click handler passing the clicked node as the source.
nodeClick_SwapEnds(s, d) ==
    IF ~IsConnectionTool(s.activeTool) THEN s
    ELSE IF s.connectionSource \in {NoSource, ""}
    THEN [s EXCEPT !.connectionSource = d]
    ELSE LET type == IF s.activeTool = "addConnection-n-n" THEN "n-to-n" ELSE "1-to-n"
             s1 == IF s.connectionSource # d
                   THEN handleAddConnection(s, d, s.connectionSource, type)
                   ELSE s
         IN setActiveTool([s1 EXCEPT !.connectionSource = NoSource], "select")

\* The click handler of a node; d is the id of the node's table.
nodeClick(s, d) ==
    IF ~IsConnectionTool(s.activeTool) THEN s
    ELSE IF s.connectionSource \in {NoSource, ""}
    THEN [s EXCEPT !.connectionSource = d]
    ELSE LET type == IF s.activeTool = "addConnection-n-n" THEN "n-to-n" ELSE "1-to-n"
             s1 == IF s.connectionSource # d
                   THEN handleAddConnection(s, s.connectionSource, d, type)
                   ELSE s
         IN setActiveTool([s1 EXCEPT !.connectionSource = NoSource], "select")

\* ------------------------------------------------------------------- inputs
\* What the user types into a table-name field (the explorer panel commits
\* the field as typed, the empty string included).
TableNameInputs == {"", "new_table"}
\* What the user types into the column editor's name field.
ColumnNameInputs == {"new_column"}

\* The canvas point of the click that adds a table: a fresh spot each time.
ClickPosition(s) == [x |-> Num(PosUnit * s.now), y |-> Num(PosUnit * (s.now + 1))]

\* The column editor's fields when Save is pressed: the key flag toggled, or
\* the name retyped; the type and the constraint boxes are left as they are.
EditorForms(column) ==
    LET hasNotNull == \E i \in 1..Len(column.constraints) : column.constraints[i] = "NOT NULL"
        hasUnique == \E i \in 1..Len(column.constraints) : column.constraints[i] = "UNIQUE"
    IN {[name |-> column.name, type |-> column.type,
         isPrimaryKey |-> ~column.isPrimaryKey,
         isNotNull |-> hasNotNull, isUnique |-> hasUnique]}
       \cup {[name |-> n, type |-> column.type, isPrimaryKey |-> column.isPrimaryKey,
               isNotNull |-> hasNotNull, isUnique |-> hasUnique] : n \in ColumnNameInputs}

AllTableIds(schema) == {schema.tables[i].id : i \in 1..Len(schema.tables)}

\* A connection source picked on a node that a later delete, undo or redo
\* removed from the schema: the nodes of the neighbouring snapshots.
StaleNodeIds(p) ==
    LET around == (IF Len(p.undoStack) > 0 THEN {p.undoStack[Len(p.undoStack)]} ELSE {})
                  \cup (IF Len(p.redoStack) > 0 THEN {Head(p.redoStack)} ELSE {})
    IN UNION {NodeIds(sn) : sn \in around} \ AllTableIds(p.schema)

\* ------------------------------------------------------------ handler calls
\* One user event: the handler it runs and the arguments the component passes.
NoForm == [name |-> "", type |-> "", isPrimaryKey |-> FALSE,
           isNotNull |-> FALSE, isUnique |-> FALSE]
NoCall == [op |-> "", tableId |-> "", columnId |-> "", targetTableId |-> "",
           type |-> "", newName |-> "", form |-> NoForm, confirmed |-> FALSE,
           position |-> [x |-> NumUndefined, y |-> NumUndefined], tool |-> ""]

\* SchemaGraph's canvas click with the add-table tool.
AddTableCalls(s) ==
    {[NoCall EXCEPT !.op = "handleAddTable", !.position = position] :
        position \in {ClickPosition(s)}}

\* SchemaGraph's node click: the second click on a different node.
AddConnectionCalls(s) ==
    LET p == ActiveProject(s) IN
    {c \in {[NoCall EXCEPT !.op = "handleAddConnection", !.tableId = src,
                            !.targetTableId = tgt, !.type = type] :
                src \in NodeIds(p.schema) \cup StaleNodeIds(p),
                tgt \in NodeIds(p.schema),
                type \in {"1-to-n", "n-to-n"}} :
        c.tableId # c.targetTableId}

UpdateTableCalls(s) ==
    {[NoCall EXCEPT !.op = "handleUpdateTable", !.tableId = tableId, !.newName = newName] :
        tableId \in AllTableIds(ActiveProject(s).schema), newName \in TableNameInputs}

AddColumnCalls(s) ==
    {[NoCall EXCEPT !.op = "handleAddColumn", !.tableId = tableId] :
        tableId \in AllTableIds(ActiveProject(s).schema)}

\* The (table id, column id) pairs the explorer panel lists.
ColumnRefs(schema) ==
    UNION {{<<schema.tables[ti].id, schema.tables[ti].columns[ci].id>> :
                ci \in 1..Len(schema.tables[ti].columns)} : ti \in 1..Len(schema.tables)}

ColumnOf(schema, tableId, columnId) ==
    LET table == schema.tables[TableIdx(schema, tableId)]
    IN table.columns[ColumnIdx(table, columnId)]

UpdateColumnDetailsCalls(s) ==
    LET schema == ActiveProject(s).schema IN
    UNION {{[NoCall EXCEPT !.op = "handleUpdateColumnDetails", !.tableId = ref[1],
                           !.columnId = ref[2], !.form = form] :
                form \in EditorForms(ColumnOf(schema, ref[1], ref[2]))} :
           ref \in ColumnRefs(schema)}

DeleteColumnCalls(s) ==
    {[NoCall EXCEPT !.op = "handleDeleteColumn", !.tableId = ref[1], !.columnId = ref[2]] :
        ref \in ColumnRefs(ActiveProject(s).schema)}

DeleteTableCalls(s) ==
    {[NoCall EXCEPT !.op = "handleDeleteTable", !.tableId = tableId, !.confirmed = confirmed] :
        tableId \in AllTableIds(ActiveProject(s).schema), confirmed \in BOOLEAN}

\* The Toolbox buttons.
ToolCalls(s) == {[NoCall EXCEPT !.op = "setActiveTool", !.tool = tool] : tool \in Tools}

\* A click on the canvas background.
SvgClickCalls(s) ==
    {[NoCall EXCEPT !.op = "svgClick", !.position = position] :
        position \in {ClickPosition(s)}}

\* A click on one of the rendered nodes.
NodeClickCalls(s) ==
    {[NoCall EXCEPT !.op = "nodeClick", !.tableId = d] :
        d \in NodeIds(ActiveProject(s).schema)}

UndoCalls(s) == {[NoCall EXCEPT !.op = "handleUndo"]}
RedoCalls(s) == {[NoCall EXCEPT !.op = "handleRedo"]}

\* The calls that end in commitSchemaChange when no check refuses them.
MutationCalls(s) ==
    AddTableCalls(s) \cup AddConnectionCalls(s) \cup UpdateTableCalls(s)
    \cup AddColumnCalls(s) \cup UpdateColumnDetailsCalls(s)
    \cup DeleteColumnCalls(s) \cup DeleteTableCalls(s)

\* The state the handler leaves when it is called in state s.
Run(s, c) ==
    CASE c.op = "handleAddTable" -> handleAddTable(s, c.position)
      [] c.op = "handleCreateProject" -> handleCreateProject(s)
      [] c.op = "handleSwitchProject" -> handleSwitchProject(s, c.projectId)
      [] c.op = "handleDeleteProject" ->
            handleDeleteProject(s, c.projectId, c.confirmed, c.first)
      [] c.op = "handleRenameProject" -> handleRenameProject(s, c.projectId, c.newName)
      [] c.op = "handleAddConnection" ->
            handleAddConnection(s, c.tableId, c.targetTableId, c.type)
      [] c.op = "handleUpdateTable" -> handleUpdateTable(s, c.tableId, c.newName)
      [] c.op = "handleAddColumn" -> handleAddColumn(s, c.tableId)
      [] c.op = "handleUpdateColumnDetails" ->
            handleUpdateColumnDetails(s, c.tableId, c.columnId,
                EditorSave(ColumnOf(ActiveProject(s).schema, c.tableId, c.columnId), c.form))
      [] c.op = "handleDeleteColumn" -> handleDeleteColumn(s, c.tableId, c.columnId)
      [] c.op = "handleDeleteTable" -> handleDeleteTable(s, c.tableId, c.confirmed)
      [] c.op = "handleUndo" -> handleUndo(s)
      [] c.op = "handleRedo" -> handleRedo(s)
      [] c.op = "setActiveTool" -> setActiveTool(s, c.tool)
      [] c.op = "svgClick" -> svgClick(s, c.position)
      [] c.op = "nodeClick" -> nodeClick(s, c.tableId)
      [] c.op = "handleImportBase64" -> handleImportBase64(s, c.base64String)
      [] c.op = "handleSendMessage" -> handleSendMessage(s, c.userMessage)
      [] c.op = "sendMessageResolved" -> sendMessageResolved(s, c.k, c.response)
      [] c.op = "sendMessageRejected" -> sendMessageRejected(s, c.k)
      [] c.op = "setDdl" -> setDdl(s, c.ddlText)
      [] c.op = "handleImportClick" -> handleImportClick(s)
      [] c.op = "handleFileChange" -> handleFileChange(s, c.ddlText)
      [] c.op = "readerLoaded" -> readerLoaded(s, c.k)
      [] c.op = "importDdlResolved" -> importDdlResolved(s, c.k, c.response)
      [] c.op = "importDdlRejected" -> importDdlRejected(s, c.k)
      [] c.op = "handleExport" -> handleExport(s, c.kind)
      [] c.op = "exportResolved" -> exportResolved(s, c.k, c.output)
      [] c.op = "exportRejected" -> exportRejected(s, c.k)
      [] c.op = "dragEnd" -> dragEnd(s, c.tableId, c.position)

\* ------------------------------------------- pasted strings and AI answers
KeyColumn(id) ==
    [id |-> id, name |-> "id", type |-> "INTEGER", isPrimaryKey |-> TRUE,
     isForeignKey |-> FALSE, foreignKeyTable |-> Undefined,
     foreignKeyColumn |-> Undefined, constraints |-> <<"NOT NULL">>]

ReferenceColumn(id, name, foreignKeyTable) ==
    [id |-> id, name |-> name, type |-> "INTEGER", isPrimaryKey |-> FALSE,
     isForeignKey |-> TRUE, foreignKeyTable |-> foreignKeyTable,
     foreignKeyColumn |-> "id", constraints |-> <<>>]

\* A schema as an earlier session of the program left it: the identifiers are
\* those initializeSchemaIds minted when its counter stood at 7.
SharedSchema ==
    MkSchema(<<
        [id |-> "table-users-7", name |-> "users",
         columns |-> <<KeyColumn("col-table-users-7-id-8")>>,
         x |-> Num(PosUnit), y |-> Num(2 * PosUnit)],
        [id |-> "table-order_items-9", name |-> "order items",
         columns |-> <<KeyColumn("col-table-order_items-9-id-10"),
                       ReferenceColumn("col-table-order_items-9-users_id-11",
                                       "users_id", "users")>>,
         x |-> Num(3 * PosUnit), y |-> Num(2 * PosUnit)]>>)

WithoutIds(schema) ==
    MkSchema([i \in 1..Len(schema.tables) |->
        [schema.tables[i] EXCEPT !.id = Undefined,
            !.columns = [j \in 1..Len(@) |-> [@[j] EXCEPT !.id = Undefined]]]])

WithoutColumnIds(schema) ==
    MkSchema([i \in 1..Len(schema.tables) |->
        [schema.tables[i] EXCEPT
            !.columns = [j \in 1..Len(@) |-> [@[j] EXCEPT !.id = Undefined]]]])

WithoutPositions(schema) ==
    MkSchema([i \in 1..Len(schema.tables) |->
        [schema.tables[i] EXCEPT !.x = NumUndefined, !.y = NumUndefined]])

\* Every placed table one pixel to the right.
Shifted(schema) ==
    MkSchema([i \in 1..Len(schema.tables) |->
        [schema.tables[i] EXCEPT
            !.x = IF @.kind = "number" THEN JsAdd(@, Num(PosUnit)) ELSE @]])

\* The strings pasted into the import box.
Base64Strings ==
    {[kind |-> "blank", json |-> NullSchema],
     [kind |-> "garbage", json |-> NullSchema],
     [kind |-> "encoded", json |-> SharedSchema],
     [kind |-> "encoded", json |-> WithoutColumnIds(SharedSchema)],
     [kind |-> "encoded", json |-> WithoutIds(WithoutPositions(SharedSchema))]}

\* The AI's answer is JSON.parse of its text, taken as a Schema unchecked. To
\* a modification request it answers with the schema it was sent: as sent, as
\* its response format has it (no identifiers, no positions), with a table
\* more, with the first table gone, or laid out anew; to a creation request
\* with a schema of its own.
TagsTable ==
    [id |-> Undefined, name |-> "tags", columns |-> <<KeyColumn(Undefined)>>,
     x |-> NumUndefined, y |-> NumUndefined]

AiResponses(q) ==
    IF q.kind = "modify"
    THEN LET sent == JsonClone(q.schema)
             bare == WithoutIds(WithoutPositions(sent))
         IN {sent, bare, Shifted(sent),
             MkSchema(Append(bare.tables, TagsTable)),
             MkSchema(IF Len(bare.tables) = 0 THEN <<>> ELSE Tail(bare.tables))}
    ELSE {WithoutIds(WithoutPositions(SharedSchema)), MkSchema(<<TagsTable>>)}

\* The encode effect: btoa(deflate(JSON.stringify(schema))), the empty string
\* when there is no schema. atob and inflate undo btoa and deflate, so the
\* string decodes to what JSON.parse makes of JSON.stringify(schema).
base64Schema(schema) ==
    IF schema.isNull THEN [kind |-> "blank", json |-> NullSchema]
    ELSE [kind |-> "encoded", json |-> JsonClone(schema)]

\* The import box holds the current schema's string until the user pastes
\* another; the button is disabled while the box is empty.
ImportBase64Calls(s) ==
    {[op |-> "handleImportBase64", base64String |-> base64String] @@ NoCall :
        base64String \in Base64Strings
            \cup {base64Schema(q.schema) : q \in {q \in {ActiveProject(s)} : ~q.schema.isNull}}}

SendMessageCalls(s) ==
    {[op |-> "handleSendMessage", userMessage |-> "Add a 'users' table"] @@ NoCall}

\* The positions in pending of the callbacks of these kinds.
InFlight(s, kinds) == {k \in 1..Len(s.pending) : s.pending[k].kind \in kinds}

ChatKinds == {"modify", "create"}

ResolvedCalls(s) ==
    UNION {{[op |-> "sendMessageResolved", k |-> k, response |-> response] @@ NoCall :
                response \in AiResponses(s.pending[k])} : k \in InFlight(s, ChatKinds)}

RejectedCalls(s) ==
    {[op |-> "sendMessageRejected", k |-> k] @@ NoCall : k \in InFlight(s, ChatKinds)}

\* The texts typed into the DDL box or read from a file.
DdlTexts == {"   ", "CREATE TABLE users (id INTEGER PRIMARY KEY);"}

SetDdlCalls(s) ==
    {[op |-> "setDdl", ddlText |-> ddlText] @@ NoCall :
        ddlText \in DdlTexts \ {ActiveProject(s).ddl}}

\* The Parse DDL button is disabled while the box is empty.
ImportClickCalls(s) ==
    {c \in {[NoCall EXCEPT !.op = "handleImportClick"]} : ActiveProject(s).ddl # ""}

\* The files chosen hold a statement.
FileChangeCalls(s) ==
    {[op |-> "handleFileChange", ddlText |-> ddlText] @@ NoCall :
        ddlText \in DdlTexts \ BlankTexts}

ReaderLoadedCalls(s) ==
    {[op |-> "readerLoaded", k |-> k] @@ NoCall : k \in InFlight(s, {"readFile"})}

\* parseDdl answers in its response format: no identifiers, no positions.
ImportDdlResolvedCalls(s) ==
    {[op |-> "importDdlResolved", k |-> k, response |-> response] @@ NoCall :
        k \in InFlight(s, {"parseDdl"}),
        response \in {WithoutIds(WithoutPositions(SharedSchema)), MkSchema(<<TagsTable>>)}}

ImportDdlRejectedCalls(s) ==
    {[op |-> "importDdlRejected", k |-> k] @@ NoCall : k \in InFlight(s, {"parseDdl"})}

ExportKinds == {"generateDdl", "generateCustom"}

\* The Update DDL button is disabled while there is no schema.
ExportCalls(s) ==
    {[op |-> "handleExport", kind |-> kind] @@ NoCall :
        kind \in {e \in ExportKinds : ~ActiveProject(s).schema.isNull}}

ExportResolvedCalls(s) ==
    {[op |-> "exportResolved", k |-> k, output |-> "CREATE TABLE tags (id INTEGER);"] @@ NoCall :
        k \in InFlight(s, ExportKinds)}

ExportRejectedCalls(s) ==
    {[op |-> "exportRejected", k |-> k] @@ NoCall : k \in InFlight(s, ExportKinds)}

\* A node dragged and released five pixels right of the origin.
DragEndCalls(s) ==
    {[NoCall EXCEPT !.op = "dragEnd", !.tableId = d,
                    !.position = [x |-> Num(5 * PosUnit), y |-> Num(PosUnit)]] :
        d \in NodeIds(ActiveProject(s).schema)}

\* The project menu of the explorer panel: New Project, the list of projects,
\* and Delete Project and Rename for the active project.
CreateProjectCalls(s) == {[op |-> "handleCreateProject"] @@ NoCall}

SwitchProjectCalls(s) ==
    {[op |-> "handleSwitchProject", projectId |-> s.projects[i].id] @@ NoCall :
        i \in 1..Len(s.projects)}

DeleteProjectCalls(s) ==
    LET remaining == {s.projects[i].id : i \in 1..Len(s.projects)} \ {s.activeProjectId}
    IN {[op |-> "handleDeleteProject", projectId |-> s.activeProjectId,
         confirmed |-> confirmed, first |-> first] @@ NoCall :
            confirmed \in BOOLEAN,
            first \in IF remaining = {} THEN {NoProjectId} ELSE remaining}

\* The rename field commits its trimmed value when that is not empty.
RenameProjectCalls(s) ==
    {[op |-> "handleRenameProject", projectId |-> s.activeProjectId,
      newName |-> "Orders"] @@ NoCall}

ProjectCalls(s) ==
    CreateProjectCalls(s) \cup SwitchProjectCalls(s)
    \cup DeleteProjectCalls(s) \cup RenameProjectCalls(s)

\* What localStorage holds when the page is opened: nothing, a string that
\* does not parse, or two projects with the second one active, with no
\* active id, or with the id of a project that is not in the list.
StoredProjects ==
    <<NewProject("proj-0", "My First Schema"),
      [NewProject("proj-1", "Untitled Schema 2") EXCEPT !.schema = SharedSchema]>>

StoredData ==
    {NoStorage,
     [projects |-> [kind |-> "corrupt", list |-> <<>>], activeProjectId |-> "proj-0"]}
    \cup {[projects |-> [kind |-> "list", list |-> StoredProjects],
           activeProjectId |-> id] : id \in {"proj-1", NoProjectId, "proj-9"}}

\* The AI calls in flight.
AiKinds == ChatKinds \cup {"parseDdl"} \cup ExportKinds

\* ---------------------------------------------------------------- observer
\* obs records what the history claims speak of and the state alone does not
\* show: where the current run of commits started, how many commits and undos
\* it has seen, and the history as it was before the last undo or redo. It
\* also carries the two bounds of the behaviour. The program has no such
\* variable; no handler reads it.
Snapshot(p) == [schema |-> p.schema, undoStack |-> p.undoStack, redoStack |-> p.redoStack]

ObsInit(on, clock, limit) ==
    [on |-> on, clock |-> clock, limit |-> limit,
     s0 |-> NullSchema, u0 |-> <<>>, n |-> 0, k |-> 0,
     phase |-> "idle",
     pre |-> [schema |-> NullSchema, undoStack |-> <<>>, redoStack |-> <<>>]]

\* The observer after call c took state s to state r. A call that leaves the
\* projects as they were (a refused mutation, an undo with nothing to undo)
\* is not an event of the history.
Observe(o, s, c, r) ==
    IF ~o.on \/ r.projects = s.projects THEN o
    ELSE LET p == ActiveProject(s)
             q == ActiveProject(r)
         IN CASE c.op = "handleUndo" ->
                    [o EXCEPT
                        !.s0 = IF o.k < o.n THEN @ ELSE q.schema,
                        !.u0 = IF o.k < o.n THEN @ ELSE q.undoStack,
                        !.n = IF o.k < o.n THEN @ ELSE 0,
                        !.k = IF o.k < o.n THEN @ + 1 ELSE 0,
                        !.phase = IF o.phase = "redone" THEN "redo-undo" ELSE "undone",
                        !.pre = IF o.phase = "redone" THEN @ ELSE Snapshot(p)]
              [] c.op = "handleRedo" ->
                    [o EXCEPT
                        !.s0 = q.schema, !.u0 = q.undoStack, !.n = 0, !.k = 0,
                        !.phase = IF o.phase = "undone" THEN "undo-redo" ELSE "redone",
                        !.pre = IF o.phase = "undone" THEN @ ELSE Snapshot(p)]
              [] OTHER ->
                    [o EXCEPT
                        !.s0 = IF o.k = 0 THEN @ ELSE p.schema,
                        !.u0 = IF o.k = 0 THEN @ ELSE p.undoStack,
                        !.n = IF o.k = 0 THEN @ + 1 ELSE 1,
                        !.k = 0,
                        !.phase = IF Len(p.redoStack) > 0 THEN "commit-after-undo"
                                  ELSE "committed",
                        !.pre = Snapshot(p)]

\* ----------------------------------------------------------- specification
Schema == ActiveProject(St).schema
UndoStack == ActiveProject(St).undoStack
RedoStack == ActiveProject(St).redoStack

\* The state after construction with nothing in storage: the load effect
\* creates one project and activates it.
InitApp ==
    /\ projects = <<[id |-> "proj-0",
                     name |-> "My First Schema",
                     schema |-> NullSchema,
                     messages |-> <<>>,
                     ddl |-> "",
                     undoStack |-> <<>>,
                     redoStack |-> <<>>]>>
    /\ activeProjectId = "proj-0"
    /\ error = NoError
    /\ now = 1
    /\ activeTool = "select"
    /\ connectionSource = NoSource
    /\ idCounter = 0
    /\ isLoading = FALSE
    /\ pending = <<>>
    /\ storage = saveProjects(NoStorage, St)

Init == InitApp /\ obs = ObsInit(FALSE, MaxNow, MaxHistory)
InitDeep == InitApp /\ obs = ObsInit(FALSE, MaxNow, MaxDeepHistory)
InitObserved == InitApp /\ obs = ObsInit(TRUE, MaxNow, MaxObservedHistory)
InitCascade == InitApp /\ obs = ObsInit(FALSE, MaxCascadeNow, MaxCascadeHistory)
InitRename == InitApp /\ obs = ObsInit(FALSE, MaxRenameNow, MaxRenameHistory)
InitTools == InitApp /\ obs = ObsInit(FALSE, MaxToolsNow, MaxToolsHistory)
InitLoading == InitApp /\ obs = ObsInit(FALSE, MaxLoadingNow, MaxLoadingHistory)
InitRequests == InitApp /\ obs = ObsInit(FALSE, MaxRequestsNow, MaxRequestsHistory)
InitImport == InitApp /\ obs = ObsInit(FALSE, MaxImportNow, MaxImportHistory)
InitChat == InitApp /\ obs = ObsInit(FALSE, MaxChatNow, MaxChatHistory)

\* The page is opened at time 2 over what localStorage holds.
InitProjects ==
    /\ projects = <<>>
    /\ activeProjectId = NoProjectId
    /\ error = NoError
    /\ now = 2
    /\ activeTool = "select"
    /\ connectionSource = NoSource
    /\ idCounter = 0
    /\ isLoading = FALSE
    /\ pending = <<>>
    /\ storage \in StoredData
    /\ obs = ObsInit(FALSE, MaxProjectsNow, MaxProjectsHistory)
InitIdentity == InitApp /\ obs = ObsInit(FALSE, MaxIdentityNow, MaxIdentityHistory)

\* The bounds of the model: a handler's result is taken only while the clock
\* and the history stay within them.
WithinBounds(r) ==
    /\ r.now <= obs.clock + 1
    /\ Len(ActiveProject(r).undoStack) + Len(ActiveProject(r).redoStack) <= obs.limit

\* The manual handlers neither read nor clear the error banner, so they are
\* explored from the states in which the user has closed it.
Apply(c) ==
    /\ error = NoError
    /\ \E r \in {Run(St, c)} :
        /\ WithinBounds(r)
        /\ projects' = r.projects
        /\ activeProjectId' = r.activeProjectId
        /\ error' = r.error
        /\ now' = r.now
        /\ activeTool' = r.activeTool
        /\ connectionSource' = r.connectionSource
        /\ idCounter' = r.idCounter
        /\ isLoading' = r.isLoading
        /\ pending' = r.pending
        /\ storage' = saveProjects(storage, r)
        /\ obs' = Observe(obs, St, c, r)

\* The import and the chat set and clear the error banner themselves.
ApplyAnyBanner(c) ==
    \E r \in {Run(St, c)} :
    /\ WithinBounds(r)
    /\ Len(ActiveProject(r).messages) <= MaxMessages
    /\ r.idCounter <= MaxIdCounter
    /\ Len(r.pending) <= MaxInFlight
    /\ projects' = r.projects
    /\ activeProjectId' = r.activeProjectId
    /\ error' = r.error
    /\ now' = r.now
    /\ activeTool' = r.activeTool
    /\ connectionSource' = r.connectionSource
    /\ idCounter' = r.idCounter
    /\ isLoading' = r.isLoading
    /\ pending' = r.pending
    /\ storage' = saveProjects(storage, r)
    /\ obs' = Observe(obs, St, c, r)

\* The import button and the chat input are disabled while an answer is
\* awaited.
ImportBase64 == ~isLoading /\ \E c \in ImportBase64Calls(St) : ApplyAnyBanner(c)

SendMessage == ~isLoading /\ \E c \in SendMessageCalls(St) : ApplyAnyBanner(c)

SendMessageResolved == \E c \in ResolvedCalls(St) : ApplyAnyBanner(c)

SendMessageRejected == \E c \in RejectedCalls(St) : ApplyAnyBanner(c)

\* The DDL box, its buttons and the file input are disabled while loading.
SetDdl == ~isLoading /\ \E c \in SetDdlCalls(St) : ApplyAnyBanner(c)

ImportClick == ~isLoading /\ \E c \in ImportClickCalls(St) : ApplyAnyBanner(c)

FileChange == ~isLoading /\ \E c \in FileChangeCalls(St) : ApplyAnyBanner(c)

ReaderLoaded == \E c \in ReaderLoadedCalls(St) : ApplyAnyBanner(c)

ImportDdlResolved == \E c \in ImportDdlResolvedCalls(St) : ApplyAnyBanner(c)

ImportDdlRejected == \E c \in ImportDdlRejectedCalls(St) : ApplyAnyBanner(c)

Export == ~isLoading /\ \E c \in ExportCalls(St) : ApplyAnyBanner(c)

ExportResolved == \E c \in ExportResolvedCalls(St) : ApplyAnyBanner(c)

ExportRejected == \E c \in ExportRejectedCalls(St) : ApplyAnyBanner(c)

\* A drag moves no banner and nothing reads one.
DragEnd == \E c \in DragEndCalls(St) : ApplyAnyBanner(c)

AddTable == \E c \in AddTableCalls(St) : Apply(c)

AddConnection == \E c \in AddConnectionCalls(St) : Apply(c)

UpdateTable == \E c \in UpdateTableCalls(St) : Apply(c)

AddColumn == \E c \in AddColumnCalls(St) : Apply(c)

UpdateColumnDetails == \E c \in UpdateColumnDetailsCalls(St) : Apply(c)

DeleteColumn == \E c \in DeleteColumnCalls(St) : Apply(c)

DeleteTable == \E c \in DeleteTableCalls(St) : Apply(c)

\* The keydown listener: Ctrl/Cmd+Z, and Ctrl/Cmd+Shift+Z or Ctrl/Cmd+Y. With
\* no project open the handlers return at once.
Undo ==
    /\ HasActive(St)
    /\ \E c \in UndoCalls(St) : Apply(c)

Redo ==
    /\ HasActive(St)
    /\ \E c \in RedoCalls(St) : Apply(c)

\* The error banner's close button.
DismissError == error # NoError /\ error' = NoError
                /\ UNCHANGED <<projects, activeProjectId, now, activeTool,
                               connectionSource, idCounter, isLoading, pending,
                               storage, obs>>

Next ==
    \/ AddTable
    \/ AddConnection
    \/ UpdateTable
    \/ AddColumn
    \/ UpdateColumnDetails
    \/ DeleteColumn
    \/ DeleteTable
    \/ Undo
    \/ Redo
    \/ DismissError

\* Manual editing of a fresh project.
Spec == Init /\ [][Next]_vars
\* The same, with a longer history.
SpecDeep == InitDeep /\ [][Next]_vars
\* The same, with the observer recording.
SpecObserved == InitObserved /\ [][Next]_vars

\* Building and taking apart: the user adds tables, columns and connections
\* and deletes columns and tables, and nothing else.
NextCascade ==
    \/ AddTable
    \/ AddConnection
    \/ AddColumn
    \/ DeleteColumn
    \/ DeleteTable
    \/ DismissError

SpecCascade == InitCascade /\ [][NextCascade]_vars

\* The Toolbox is rendered once a project is open, and disabled while an AI
\* call is pending.
SelectTool ==
    /\ HasActive(St)
    /\ ~isLoading
    /\ \E c \in ToolCalls(St) : Apply(c)

SvgClick == \E c \in SvgClickCalls(St) : Apply(c)

NodeClick == \E c \in NodeClickCalls(St) : Apply(c)

\* Working on the canvas with the tools: tables are added by a click with the
\* add-table tool and connections by two node clicks with a connection tool;
\* the user also adds columns and undoes.
NextTools ==
    \/ SelectTool
    \/ SvgClick
    \/ NodeClick
    \/ AddColumn
    \/ Undo
    \/ DismissError

SpecTools == InitTools /\ [][NextTools]_vars

\* Tables, connections between them and the column editor.
NextRename ==
    \/ AddTable
    \/ AddConnection
    \/ UpdateColumnDetails
    \/ DismissError

SpecRename == InitRename /\ [][NextRename]_vars

\* The project menu is rendered once a project is open.
ApplyProject(c) ==
    /\ HasActive(St)
    /\ \E r \in {Run(St, c)} :
        /\ r.now <= obs.clock + 1
        /\ Len(r.projects) <= MaxProjects
        /\ projects' = r.projects
        /\ activeProjectId' = r.activeProjectId
        /\ error' = r.error
        /\ now' = r.now
        /\ activeTool' = r.activeTool
        /\ connectionSource' = r.connectionSource
        /\ idCounter' = r.idCounter
        /\ isLoading' = r.isLoading
        /\ pending' = r.pending
        /\ storage' = saveProjects(storage, r)
        /\ obs' = obs

CreateProject == \E c \in CreateProjectCalls(St) : ApplyProject(c)

SwitchProject == \E c \in SwitchProjectCalls(St) : ApplyProject(c)

DeleteProject == \E c \in DeleteProjectCalls(St) : ApplyProject(c)

RenameProject == \E c \in RenameProjectCalls(St) : ApplyProject(c)

\* The page is opened or reloaded: every useState starts afresh, the module's
\* idCounter is 0, the callbacks in flight are gone, and the load effect and
\* the save effect run.
Mount ==
    \E r \in {loadProjects(storage, now)} :
        /\ r.now <= obs.clock + 1
        /\ projects' = r.projects
        /\ activeProjectId' = r.activeProjectId
        /\ error' = r.error
        /\ now' = r.now
        /\ activeTool' = r.activeTool
        /\ connectionSource' = r.connectionSource
        /\ idCounter' = r.idCounter
        /\ isLoading' = r.isLoading
        /\ pending' = r.pending
        /\ storage' = saveProjects(loadStorage(storage), r)
        /\ obs' = obs

\* Opening the page and working with the project menu; tables are added to
\* tell the projects apart.
NextProjects ==
    \/ Mount
    \/ CreateProject
    \/ SwitchProject
    \/ DeleteProject
    \/ RenameProject
    \/ HasActive(St) /\ AddTable

SpecProjects == InitProjects /\ [][NextProjects]_vars

\* The chat from the send to the answer, and between the two what the canvas,
\* the explorer panel and the keyboard still offer.
NextLoading ==
    \/ SendMessage
    \/ SendMessageResolved
    \/ SendMessageRejected
    \/ SelectTool
    \/ SvgClick
    \/ AddColumn
    \/ DragEnd
    \/ Undo
    \/ Redo
    \/ DismissError

SpecLoading == InitLoading /\ [][NextLoading]_vars

\* The chat, the explorer's add-column button and the keyboard.
NextChat ==
    \/ SendMessage
    \/ SendMessageResolved
    \/ SendMessageRejected
    \/ AddColumn
    \/ Undo
    \/ Redo
    \/ DismissError

SpecChat == InitChat /\ [][NextChat]_vars

\* Every way to start an AI call, and the calls' ends.
NextRequests ==
    \/ SetDdl
    \/ ImportClick
    \/ FileChange
    \/ ReaderLoaded
    \/ ImportDdlResolved
    \/ ImportDdlRejected
    \/ Export
    \/ ExportResolved
    \/ ExportRejected
    \/ SendMessage
    \/ SendMessageResolved
    \/ SendMessageRejected
    \/ DismissError

SpecRequests == InitRequests /\ [][NextRequests]_vars

\* The two imports, after and before manual edits.
NextImport ==
    \/ SetDdl
    \/ ImportClick
    \/ ImportDdlResolved
    \/ ImportDdlRejected
    \/ ImportBase64
    \/ AddTable
    \/ Undo
    \/ DismissError

SpecImport == InitImport /\ [][NextImport]_vars

\* The import, the chat and, while no answer is awaited, connections.
NextIdentity ==
    \/ ImportBase64
    \/ SendMessage
    \/ SendMessageResolved
    \/ SendMessageRejected
    \/ (~isLoading /\ AddConnection)
    \/ DismissError

SpecIdentity == InitIdentity /\ [][NextIdentity]_vars

\* ------------------------------------------------------------ history claims
\* C1: after a run of N committed mutations followed by N undos, the schema
\* and the undo stack are the ones the project had before the first of the
\* N commits.
C1_UndoAllRestores ==
    (obs.n > 0 /\ obs.k = obs.n) => (Schema = obs.s0 /\ UndoStack = obs.u0)

\* Two commits made on an already edited project, both undone.
C1_Witness ==
    /\ obs.n >= 2 /\ obs.k = obs.n
    /\ ~obs.s0.isNull /\ Len(obs.u0) > 0
    /\ Schema = obs.s0

\* C2: an undo that had something to undo, followed by redo, leaves the
\* schema, the undo stack and the redo stack as they were before the undo;
\* so does a redo that had something to redo, followed by undo.
C2_UndoRedoRoundTrip ==
    obs.phase \in {"undo-redo", "redo-undo"} => Snapshot(ActiveProject(St)) = obs.pre

\* An undo then a redo in the middle of the history: snapshots on both stacks.
C2_Witness ==
    /\ obs.phase = "undo-redo"
    /\ Len(UndoStack) > 0 /\ Len(RedoStack) > 0
    /\ Schema # UndoStack[Len(UndoStack)]

SchemaOf(s) == ActiveProject(s).schema
HistoryOf(s) == Snapshot(ActiveProject(s))
TableOf(schema, tableId) == schema.tables[TableIdx(schema, tableId)]
HasPk(table) == \E j \in 1..Len(table.columns) : table.columns[j].isPrimaryKey
RefersTo(column, tableName, columnName) ==
    /\ column.isForeignKey
    /\ column.foreignKeyTable = tableName
    /\ column.foreignKeyColumn = columnName
IsReferenced(schema, tableName, columnName) ==
    \E i \in 1..Len(schema.tables) : \E j \in 1..Len(schema.tables[i].columns) :
        RefersTo(schema.tables[i].columns[j], tableName, columnName)

\* ---------------------------------------------------------- validation
RenameToTakenName(s, c) ==
    /\ c.op = "handleUpdateTable"
    /\ \E i \in 1..Len(SchemaOf(s).tables) :
        SchemaOf(s).tables[i].id # c.tableId /\ SchemaOf(s).tables[i].name = c.newName
EditToSiblingName(s, c) ==
    /\ c.op = "handleUpdateColumnDetails"
    /\ LET t == TableOf(SchemaOf(s), c.tableId)
       IN \E j \in 1..Len(t.columns) :
            t.columns[j].id # c.columnId /\ t.columns[j].name = c.form.name
DeleteReferencedColumn(s, c) ==
    /\ c.op = "handleDeleteColumn"
    /\ IsReferenced(SchemaOf(s), TableOf(SchemaOf(s), c.tableId).name,
                    ColumnOf(SchemaOf(s), c.tableId, c.columnId).name)
OneToNWithoutPk(s, c) ==
    /\ c.op = "handleAddConnection" /\ c.type = "1-to-n"
    /\ {c.tableId, c.targetTableId} \subseteq AllTableIds(SchemaOf(s))
    /\ ~HasPk(TableOf(SchemaOf(s), c.targetTableId))
NToNWithoutPk(s, c) ==
    /\ c.op = "handleAddConnection" /\ c.type = "n-to-n"
    /\ {c.tableId, c.targetTableId} \subseteq AllTableIds(SchemaOf(s))
    /\ \/ ~HasPk(TableOf(SchemaOf(s), c.tableId))
       \/ ~HasPk(TableOf(SchemaOf(s), c.targetTableId))
ValidationFailure(s, c) ==
    \/ RenameToTakenName(s, c)
    \/ EditToSiblingName(s, c)
    \/ DeleteReferencedColumn(s, c)
    \/ OneToNWithoutPk(s, c)
    \/ NToNWithoutPk(s, c)

\* C4: a rename to another table's name, an edit to a sibling column's name,
\* a delete of a referenced column, a 1-N connection to a target without a
\* primary key and an N-N connection with a side without one each leave the
\* schema, the undo stack and the redo stack unchanged and set an error.
C4_FailuresChangeNothing ==
    error = NoError =>
        \A c \in MutationCalls(St) :
            ValidationFailure(St, c) =>
                \A r \in {Run(St, c)} :
                    /\ HistoryOf(r) = HistoryOf(St)
                    /\ r.error # NoError

\* The banner shows the refusal of a delete of a referenced column.
C4_Witness ==
    /\ error # NoError
    /\ \E c \in DeleteColumnCalls(St) :
        /\ DeleteReferencedColumn(St, c)
        /\ Run([St EXCEPT !.error = NoError], c).error = error

\* ------------------------------------------------------ schema invariants
\* C5: every foreign-key column names an existing table and an existing
\* column of that table, in every state manual editing reaches.
C5_ReferentialIntegrity ==
    \A i \in 1..Len(Schema.tables) : \A j \in 1..Len(Schema.tables[i].columns) :
        LET column == Schema.tables[i].columns[j] IN
        column.isForeignKey =>
            \E k \in 1..Len(Schema.tables) :
                /\ Schema.tables[k].name = column.foreignKeyTable
                /\ \E l \in 1..Len(Schema.tables[k].columns) :
                    Schema.tables[k].columns[l].name = column.foreignKeyColumn

\* C6: no two tables of the schema have the same name.
C6_TableNamesUnique ==
    \A i, j \in 1..Len(Schema.tables) :
        i # j => Schema.tables[i].name # Schema.tables[j].name

\* Two tables and their junction table, one of the two renamed since.
C6_Witness ==
    /\ Len(Schema.tables) >= 3
    /\ \E i \in 1..Len(Schema.tables) : IsJunction(Schema.tables[i])
    /\ \E i \in 1..Len(Schema.tables) : Schema.tables[i].name = ""

\* C7: no two columns of one table have the same name.
C7_ColumnNamesUnique ==
    \A i \in 1..Len(Schema.tables) :
        \A j, k \in 1..Len(Schema.tables[i].columns) :
            j # k => Schema.tables[i].columns[j].name # Schema.tables[i].columns[k].name

\* A table holding a minted foreign-key column and a column renamed since.
C7_Witness ==
    \E i \in 1..Len(Schema.tables) :
        /\ Len(Schema.tables[i].columns) >= 2
        /\ \E j \in 1..Len(Schema.tables[i].columns) : Schema.tables[i].columns[j].isForeignKey
        /\ \E j \in 1..Len(Schema.tables[i].columns) :
            Schema.tables[i].columns[j].name \in ColumnNameInputs

\* ------------------------------------------------------------ rename table
\* C8: renaming table A to a name B that no table has changes A's name to B,
\* changes to B the foreignKeyTable of every foreign-key column whose
\* foreignKeyTable was A's old name, and changes nothing else: no other
\* foreign key, no column, no identifier, no position.
C8_RenameRewritesOnlyReferences ==
    \A c \in UpdateTableCalls(St) :
        LET old == Schema
            new == SchemaOf(Run(St, c))
            oldName == TableOf(old, c.tableId).name
        IN (\A i \in 1..Len(old.tables) : old.tables[i].name # c.newName) =>
            /\ Len(new.tables) = Len(old.tables)
            /\ \A i \in 1..Len(old.tables) :
                LET t == old.tables[i]
                    u == new.tables[i]
                IN /\ u.id = t.id /\ u.x = t.x /\ u.y = t.y
                   /\ u.name = IF t.id = c.tableId THEN c.newName ELSE t.name
                   /\ Len(u.columns) = Len(t.columns)
                   /\ \A j \in 1..Len(t.columns) :
                        u.columns[j] =
                            IF t.columns[j].isForeignKey
                               /\ t.columns[j].foreignKeyTable = oldName
                            THEN [t.columns[j] EXCEPT !.foreignKeyTable = c.newName]
                            ELSE t.columns[j]

\* ----------------------------------------------------------- delete column
\* The ids of the tables that hold a foreign-key column to (tableName, columnName).
ReferencingTableIds(schema, tableName, columnName) ==
    {schema.tables[i].id : i \in {k \in 1..Len(schema.tables) :
        \E j \in 1..Len(schema.tables[k].columns) :
            RefersTo(schema.tables[k].columns[j], tableName, columnName)}}

RECURSIVE DeleteTables(_, _)
\* The state after the user deletes the tables ids, confirming each time.
DeleteTables(s, ids) ==
    IF ids = {} THEN s
    ELSE LET id == CHOOSE x \in ids : TRUE
         IN DeleteTables(handleDeleteTable(s, id, TRUE), ids \ {id})

\* The table is in the schema and holds the column.
HoldsColumn(schema, tableId, columnId) ==
    /\ TableIdx(schema, tableId) # 0
    /\ ColumnIdx(TableOf(schema, tableId), columnId) # 0

\* Call c, a column delete, is carried out from state s: a commit whose
\* schema is that of s without that one column.
DeletesExactly(s, c) ==
    LET r == Run(s, c)
        ti == TableIdx(SchemaOf(s), c.tableId)
        columns == SchemaOf(s).tables[ti].columns
        ci == ColumnIdx(SchemaOf(s).tables[ti], c.columnId)
    IN /\ ActiveProject(r).undoStack = Append(ActiveProject(s).undoStack, SchemaOf(s))
       /\ r.error = s.error
       /\ SchemaOf(r) = MkSchema([SchemaOf(s).tables EXCEPT ![ti].columns =
                SubSeq(columns, 1, ci - 1) \o SubSeq(columns, ci + 1, Len(columns))])

\* Deleting a column is refused exactly when a foreign key references it.
RefusedIffReferenced(s, c) ==
    IF IsReferenced(SchemaOf(s), TableOf(SchemaOf(s), c.tableId).name,
                    ColumnOf(SchemaOf(s), c.tableId, c.columnId).name)
    THEN HistoryOf(Run(s, c)) = HistoryOf(s)
    ELSE DeletesExactly(s, c)

\* The state after the tables that hold the references to c's column are deleted.
AfterReferrersDeleted(s, c) ==
    DeleteTables(s, ReferencingTableIds(SchemaOf(s), TableOf(SchemaOf(s), c.tableId).name,
                                        ColumnOf(SchemaOf(s), c.tableId, c.columnId).name))

\* C9 as stated: deleting column C of table T is refused, schema and history
\* unchanged, exactly when some foreign-key column references (T.name,
\* C.name); after the tables holding all such columns are deleted, deleting
\* C succeeds and removes exactly C.
C9_DeleteColumnGuard ==
    error = NoError =>
        \A c \in DeleteColumnCalls(St) :
            /\ RefusedIffReferenced(St, c)
            /\ LET s1 == AfterReferrersDeleted(St, c)
               IN /\ HoldsColumn(SchemaOf(s1), c.tableId, c.columnId)
                  /\ DeletesExactly(s1, c)

\* C9 amended: the same, the delete after the table deletions being that of a
\* column those deletions left in place (a deleted table takes with it every
\* foreign-key column that pointed to it, C included if C was one).
C9_DeleteColumnGuardIfPresent ==
    error = NoError =>
        \A c \in DeleteColumnCalls(St) :
            /\ RefusedIffReferenced(St, c)
            /\ LET s1 == AfterReferrersDeleted(St, c)
               IN HoldsColumn(SchemaOf(s1), c.tableId, c.columnId) => DeletesExactly(s1, c)

\* The last two commits were the delete of the one table that referenced a
\* column and then the delete of that column.
C9_Witness ==
    /\ Len(UndoStack) >= 2
    /\ LET before == UndoStack[Len(UndoStack) - 1]
           between == UndoStack[Len(UndoStack)]
       IN /\ ~before.isNull /\ ~between.isNull /\ ~Schema.isNull
          /\ \E ref \in ColumnRefs(before) :
                LET tableName == TableOf(before, ref[1]).name
                    columnName == ColumnOf(before, ref[1], ref[2]).name
                    referrers == ReferencingTableIds(before, tableName, columnName)
                IN /\ referrers # {}
                   /\ AllTableIds(between) = AllTableIds(before) \ referrers
                   /\ HoldsColumn(between, ref[1], ref[2])
                   /\ ~IsReferenced(between, tableName, columnName)
                   /\ AllTableIds(Schema) = AllTableIds(between)
                   /\ ~HoldsColumn(Schema, ref[1], ref[2])

\* ------------------------------------------------------------ delete table
\* C10: a confirmed delete of table T removes T, removes from every other
\* table exactly the foreign-key columns whose foreignKeyTable is T's name and
\* leaves the rest unchanged; an unconfirmed delete leaves the schema and both
\* stacks unchanged.
C10_DeleteTableCascade ==
    \A c \in DeleteTableCalls(St) :
        \A r \in {Run(St, c)} :
        LET old == Schema
            new == SchemaOf(r)
            ti == TableIdx(old, c.tableId)
            T == old.tables[ti]
            Left(i) == IF i < ti THEN i ELSE i + 1
        IN IF ~c.confirmed THEN HistoryOf(r) = HistoryOf(St)
           ELSE /\ ActiveProject(r).undoStack = Append(UndoStack, old)
                /\ ActiveProject(r).redoStack = <<>>
                /\ r.error = error
                /\ ~new.isNull
                /\ Len(new.tables) = Len(old.tables) - 1
                /\ \A i \in 1..Len(new.tables) :
                    LET t == old.tables[Left(i)]
                        Stays(column) == ~(column.isForeignKey
                                           /\ column.foreignKeyTable = T.name)
                    IN new.tables[i] = [t EXCEPT !.columns = SelectSeq(t.columns, Stays)]

\* The last commit deleted a table that another table pointed to: that table
\* is still there, with fewer columns.
C10_Witness ==
    /\ Len(UndoStack) >= 1 /\ RedoStack = <<>> /\ ~Schema.isNull
    /\ LET before == UndoStack[Len(UndoStack)]
       IN /\ ~before.isNull
          /\ \E id \in AllTableIds(before) \ AllTableIds(Schema) :
                /\ AllTableIds(Schema) = AllTableIds(before) \ {id}
                /\ \E i \in 1..Len(Schema.tables) :
                    /\ Len(Schema.tables[i].columns)
                        < Len(TableOf(before, Schema.tables[i].id).columns)
                    /\ \A j \in 1..Len(Schema.tables[i].columns) :
                        ~(Schema.tables[i].columns[j].isForeignKey /\
                          Schema.tables[i].columns[j].foreignKeyTable
                            = TableOf(before, id).name)

\* ------------------------------------------------------- edit a key column
\* The column editor saved with another name typed into its name field (a
\* sibling's name included), the key box left as it is or toggled.
RenameForms(table, column) ==
    LET hasNotNull == \E i \in 1..Len(column.constraints) : column.constraints[i] = "NOT NULL"
        hasUnique == \E i \in 1..Len(column.constraints) : column.constraints[i] = "UNIQUE"
    IN {[name |-> n, type |-> column.type, isPrimaryKey |-> pk,
         isNotNull |-> hasNotNull, isUnique |-> hasUnique] :
            n \in (ColumnNameInputs \cup ColumnNames(table)) \ {column.name},
            pk \in BOOLEAN}

\* The renames of the columns that are primary keys.
KeyRenameCalls(s) ==
    LET schema == SchemaOf(s) IN
    UNION {{[NoCall EXCEPT !.op = "handleUpdateColumnDetails", !.tableId = ref[1],
                           !.columnId = ref[2], !.form = form] :
                form \in RenameForms(TableOf(schema, ref[1]),
                                     ColumnOf(schema, ref[1], ref[2]))} :
           ref \in {x \in ColumnRefs(schema) : ColumnOf(schema, x[1], x[2]).isPrimaryKey}}

\* C11: an edit that renames a primary-key column c of table T to c' is
\* refused when a sibling column is named c'; otherwise it commits the schema
\* in which the column carries the editor's fields, every foreign-key column
\* that referenced (T.name, c) references (T.name, c') and every other column
\* is as it was.
C11_KeyRenamePropagates ==
    \A c \in KeyRenameCalls(St) :
        \A r \in {Run(St, c)} :
        LET old == Schema
            new == SchemaOf(r)
            ti == TableIdx(old, c.tableId)
            T == old.tables[ti]
            ci == ColumnIdx(T, c.columnId)
            edited == EditorSave(T.columns[ci], c.form)
            Rewritten(column) ==
                IF RefersTo(column, T.name, T.columns[ci].name)
                THEN [column EXCEPT !.foreignKeyColumn = c.form.name]
                ELSE column
        IN IF EditToSiblingName(St, c)
           THEN HistoryOf(r) = HistoryOf(St) /\ r.error # NoError
           ELSE /\ ActiveProject(r).undoStack = Append(UndoStack, old)
                /\ r.error = error
                /\ ~new.isNull
                /\ Len(new.tables) = Len(old.tables)
                /\ \A i \in 1..Len(old.tables) :
                    new.tables[i] = [old.tables[i] EXCEPT !.columns =
                        [j \in 1..Len(@) |->
                            Rewritten(IF i = ti /\ j = ci THEN edited ELSE @[j])]]

\* The last commit renamed a primary-key column that a foreign key of a
\* junction table referenced: the foreign key follows, its twin does not.
C11_Witness ==
    /\ Len(UndoStack) >= 1 /\ RedoStack = <<>> /\ ~Schema.isNull
    /\ LET before == UndoStack[Len(UndoStack)]
       IN /\ ~before.isNull
          /\ \E ref \in ColumnRefs(before) :
                /\ HoldsColumn(Schema, ref[1], ref[2])
                /\ LET T == TableOf(before, ref[1])
                       was == ColumnOf(before, ref[1], ref[2])
                       is == ColumnOf(Schema, ref[1], ref[2])
                   IN /\ was.isPrimaryKey /\ is.name # was.name
                      /\ IsReferenced(before, T.name, was.name)
                      /\ IsReferenced(Schema, T.name, is.name)
                      /\ ~IsReferenced(Schema, T.name, was.name)
                      /\ \E i \in 1..Len(Schema.tables) :
                            /\ IsJunction(Schema.tables[i])
                            /\ Schema.tables[i].columns[1].foreignKeyColumn
                                # Schema.tables[i].columns[2].foreignKeyColumn

\* ------------------------------------------------------------------ derive
\* How many links of the sequence equal the given one.
LinkCount(links, link) == Cardinality({k \in 1..Len(links) : links[k] = link})

\* A junction table both of whose foreign keys name a table of the schema.
JoinsTables(schema, table) ==
    /\ IsJunction(table)
    /\ \A j \in 1..2 : \E i \in 1..Len(schema.tables) :
        schema.tables[i].name = table.columns[j].foreignKeyTable

\* The N-to-N edge between the tables X and Y that the junction table names.
EdgeOf(schema, table) ==
    [source |-> schema.tables[tableMap(schema, table.columns[1].foreignKeyTable)].id,
     target |-> schema.tables[tableMap(schema, table.columns[2].foreignKeyTable)].id,
     type |-> "n-to-n"]

\* C12: a table with exactly two columns, both primary and foreign key,
\* naming existing tables X and Y, has no node and yields exactly one N-to-N
\* edge, which joins the nodes of X and Y; any other table that is not of
\* that two-column shape has a node and yields no N-to-N edge.
C12_JunctionCollapsing ==
    LET links == finalLinks(Schema)
        nodes == NodeIds(Schema)
        joining == {i \in 1..Len(Schema.tables) : JoinsTables(Schema, Schema.tables[i])}
    IN /\ \A i \in 1..Len(Schema.tables) :
            LET t == Schema.tables[i] IN
            IF IsJunction(t)
            THEN /\ t.id \notin nodes
                 /\ JoinsTables(Schema, t) =>
                    /\ EdgeOf(Schema, t).source \in nodes
                    /\ EdgeOf(Schema, t).target \in nodes
                    /\ LinkCount(links, EdgeOf(Schema, t)) =
                        Cardinality({k \in joining :
                            EdgeOf(Schema, Schema.tables[k]) = EdgeOf(Schema, t)})
            ELSE t.id \in nodes
       /\ Cardinality({k \in 1..Len(links) : links[k].type = "n-to-n"})
            = Cardinality(joining)

\* The 1-to-N edge a foreign-key column of a regular table stands for.
ForeignKeyEdge(schema, table, column) ==
    [source |-> table.id,
     target |-> schema.tables[tableMap(schema, column.foreignKeyTable)].id,
     type |-> "1-to-n"]

\* The (table index, column index) pairs of the foreign-key columns of
\* regular tables whose target table exists and is not a junction table.
EdgeColumns(schema) ==
    {x \in UNION {{<<i, j>> : j \in 1..Len(schema.tables[i].columns)} :
                    i \in 1..Len(schema.tables)} :
        LET t == schema.tables[x[1]]
            column == t.columns[x[2]]
        IN /\ ~IsJunction(t)
           /\ column.isForeignKey
           /\ tableMap(schema, column.foreignKeyTable) # 0
           /\ ~IsJunction(schema.tables[tableMap(schema, column.foreignKeyTable)])}

\* C13: the 1-to-N edges are exactly one per foreign-key column of a regular
\* table whose target table exists and is not a junction table, from the
\* table that holds the column to the table it names; a foreign key that
\* names a junction table yields no edge.
C13_ForeignKeyEdges ==
    LET links == finalLinks(Schema)
        columns == EdgeColumns(Schema)
        EdgeAt(x) == ForeignKeyEdge(Schema, Schema.tables[x[1]],
                                    Schema.tables[x[1]].columns[x[2]])
    IN /\ \A x \in columns :
            LinkCount(links, EdgeAt(x)) =
                Cardinality({y \in columns : EdgeAt(y) = EdgeAt(x)})
       /\ Cardinality({k \in 1..Len(links) : links[k].type = "1-to-n"})
            = Cardinality(columns)

\* ---------------------------------------------------------- add connection
\* name is base if no element of used is base, and otherwise base_k for the
\* first k >= 2 such that base_k is unused.
FirstUnused(name, base, used) ==
    IF base \notin used THEN name = base
    ELSE \E k \in 2..(Cardinality(used) + 2) :
            /\ name = base \o "_" \o ToString(k)
            /\ name \notin used
            /\ \A m \in 2..(k - 1) : (base \o "_" \o ToString(m)) \in used

\* The connections between two tables of the schema.
BetweenTables(s, c) ==
    {c.tableId, c.targetTableId} \subseteq AllTableIds(SchemaOf(s))

\* C14: a 1-to-N connection from source to a target that has a primary key
\* commits the schema in which source has one more column and nothing else
\* differs; the column is named target_id (target_id_k, k the first unused
\* from 2 on, when that is taken), has the type of target's primary-key
\* column, is a foreign key and not a primary key, and references target's
\* name and the name of that primary-key column.
C14_OneToNAddsForeignKey ==
    \A c \in AddConnectionCalls(St) :
        (c.type = "1-to-n" /\ BetweenTables(St, c)
            /\ HasPk(TableOf(Schema, c.targetTableId))) =>
            LET r == Run(St, c)
                old == Schema
                new == SchemaOf(r)
                si == TableIdx(old, c.tableId)
                source == old.tables[si]
                target == TableOf(old, c.targetTableId)
                pk == target.columns[PkIdx(target)]
                added == new.tables[si].columns[Len(source.columns) + 1]
            IN /\ ActiveProject(r).undoStack = Append(UndoStack, old)
               /\ r.error = error
               /\ ~new.isNull
               /\ Len(new.tables[si].columns) = Len(source.columns) + 1
               /\ new = MkSchema([old.tables EXCEPT ![si].columns = Append(@, added)])
               /\ FirstUnused(added.name, target.name \o "_id", ColumnNames(source))
               /\ added.type = pk.type
               /\ added.isForeignKey /\ ~added.isPrimaryKey
               /\ added.foreignKeyTable = target.name
               /\ added.foreignKeyColumn = pk.name

\* The last commit added a second foreign key from one table to another: the
\* table holds target_id and target_id_2, both referencing the target's key.
C14_Witness ==
    /\ Len(UndoStack) >= 1 /\ RedoStack = <<>> /\ ~Schema.isNull
    /\ LET before == UndoStack[Len(UndoStack)]
       IN /\ ~before.isNull /\ Len(before.tables) = Len(Schema.tables)
          /\ \E i \in 1..Len(Schema.tables) : \E k \in 1..Len(Schema.tables) :
                LET t == Schema.tables[i]
                    n == Len(t.columns)
                    target == Schema.tables[k]
                IN /\ n = Len(before.tables[i].columns) + 1
                   /\ t.columns[n].name = target.name \o "_id_2"
                   /\ RefersTo(t.columns[n], target.name, "id")
                   /\ \E j \in 1..(n - 1) :
                        /\ t.columns[j].name = target.name \o "_id"
                        /\ RefersTo(t.columns[j], target.name, "id")

\* C15: an N-to-N connection between two different tables that both have a
\* primary key commits the schema with one more table after the tables of
\* before (their identifiers, names and columns as they were), named source_target
\* (suffixed on collision), whose two columns are each primary and foreign
\* key, the first referencing source's primary key and the second target's;
\* the new table has no node, the nodes are those of before, and the links
\* are those of before and one more N-to-N link from source to target.
C15_NToNAddsJunction ==
    \A c \in AddConnectionCalls(St) :
        (c.type = "n-to-n" /\ BetweenTables(St, c)
            /\ HasPk(TableOf(Schema, c.tableId))
            /\ HasPk(TableOf(Schema, c.targetTableId))) =>
            \A r \in {Run(St, c)} :
            \A linksOld \in {finalLinks(Schema)} :
            \A linksNew \in {finalLinks(SchemaOf(r))} :
            LET old == Schema
                new == SchemaOf(r)
                source == TableOf(old, c.tableId)
                target == TableOf(old, c.targetTableId)
                spk == source.columns[PkIdx(source)]
                tpk == target.columns[PkIdx(target)]
                added == new.tables[Len(old.tables) + 1]
                edge == [source |-> source.id, target |-> target.id, type |-> "n-to-n"]
            IN /\ ActiveProject(r).undoStack = Append(UndoStack, old)
               /\ r.error = error
               /\ ~new.isNull
               /\ Len(new.tables) = Len(old.tables) + 1
               /\ \A i \in 1..Len(old.tables) :
                    /\ new.tables[i].id = old.tables[i].id
                    /\ new.tables[i].name = old.tables[i].name
                    /\ new.tables[i].columns = old.tables[i].columns
               /\ FirstUnused(added.name, source.name \o "_" \o target.name,
                              TableNames(old))
               /\ Len(added.columns) = 2
               /\ \A j \in 1..2 : added.columns[j].isPrimaryKey
                                  /\ added.columns[j].isForeignKey
               /\ RefersTo(added.columns[1], source.name, spk.name)
               /\ RefersTo(added.columns[2], target.name, tpk.name)
               /\ added.id \notin NodeIds(new)
               /\ NodeIds(new) = NodeIds(old)
               /\ Len(linksNew) = Len(linksOld) + 1
               /\ LinkCount(linksNew, edge) = LinkCount(linksOld, edge) + 1
               /\ \A k \in 1..Len(linksOld) :
                    linksOld[k] # edge =>
                        LinkCount(linksNew, linksOld[k]) = LinkCount(linksOld, linksOld[k])

\* The last commit joined for the second time two tables: the schema holds
\* the junction tables source_target and source_target_2 and two N-to-N links
\* between the two nodes.
C15_Witness ==
    /\ Len(UndoStack) >= 1 /\ RedoStack = <<>> /\ ~Schema.isNull
    /\ LET before == UndoStack[Len(UndoStack)]
           n == Len(Schema.tables)
       IN /\ ~before.isNull /\ n = Len(before.tables) + 1
          /\ IsJunction(Schema.tables[n])
          /\ \E i \in 1..(n - 1) :
                /\ IsJunction(Schema.tables[i])
                /\ Schema.tables[n].name = Schema.tables[i].name \o "_2"
                /\ EdgeOf(Schema, Schema.tables[n]) = EdgeOf(Schema, Schema.tables[i])
                /\ LinkCount(finalLinks(Schema), EdgeOf(Schema, Schema.tables[n])) = 2
                /\ LinkCount(finalLinks(before), EdgeOf(Schema, Schema.tables[n])) = 1
                /\ {EdgeOf(Schema, Schema.tables[n]).source,
                    EdgeOf(Schema, Schema.tables[n]).target} \subseteq NodeIds(Schema)

\* Every table and column of the schema has an identifier.
HasIds(schema) ==
    \A i \in 1..Len(schema.tables) :
        /\ ~Falsy(schema.tables[i].id)
        /\ \A j \in 1..Len(schema.tables[i].columns) :
            ~Falsy(schema.tables[i].columns[j].id)

\* No two tables of the schema, and no two columns of a table, share a name.
UniqueNames(schema) ==
    /\ \A i, k \in 1..Len(schema.tables) :
        schema.tables[i].name = schema.tables[k].name => i = k
    /\ \A i \in 1..Len(schema.tables) :
        \A j, l \in 1..Len(schema.tables[i].columns) :
            schema.tables[i].columns[j].name = schema.tables[i].columns[l].name => j = l

\* The schemas at hand in a state: the current one, those of the history, the
\* one an awaited answer was asked about.
SchemasAtHand ==
    {s \in {Schema} \cup {pending[k].schema : k \in 1..Len(pending)}
           \cup {UndoStack[k] : k \in 1..Len(UndoStack)}
           \cup {RedoStack[k] : k \in 1..Len(RedoStack)} : ~s.isNull}

\* C16: reconciling a schema with itself, when it has all its identifiers and
\* unique table and column names, returns every table and column with the
\* identifier it had and every table at the position it had, and mints no
\* identifier (the counter stays where it was).
C16_ReconcileSelfIsIdentity ==
    \A schema \in SchemasAtHand :
        (HasIds(schema) /\ UniqueNames(schema)) =>
            LET r == reconcileSchemaIds(schema, schema, idCounter)
            IN /\ r.idCounter = idCounter
               /\ Len(r.schema.tables) = Len(schema.tables)
               /\ \A i \in 1..Len(schema.tables) :
                    /\ r.schema.tables[i].id = schema.tables[i].id
                    /\ r.schema.tables[i].x = schema.tables[i].x
                    /\ r.schema.tables[i].y = schema.tables[i].y
                    /\ Len(r.schema.tables[i].columns) = Len(schema.tables[i].columns)
                    /\ \A j \in 1..Len(schema.tables[i].columns) :
                        r.schema.tables[i].columns[j].id = schema.tables[i].columns[j].id

\* The AI answered a modification request with the schema it was sent, two
\* placed tables with their identifiers, and the commit left it as it was.
C16_Witness ==
    /\ ~isLoading /\ ~Schema.isNull /\ Len(UndoStack) >= 1
    /\ Schema = UndoStack[Len(UndoStack)]
    /\ Len(Schema.tables) >= 2
    /\ HasIds(Schema) /\ UniqueNames(Schema)
    /\ \A i \in 1..Len(Schema.tables) : Schema.tables[i].x.kind = "number"
    /\ LET messages == ActiveProject(St).messages
       IN /\ Len(messages) >= 2
          /\ messages[Len(messages)].text
                = "Schema updated based on your request. What's next?"

\* The position the claim gives a matched table: the old one, the new one
\* only when the old table has none.
OldPositionFirst(oldN, newN) == IF Nullish(oldN) THEN newN ELSE oldN

\* Two coordinates are the same, null and undefined both being none.
SamePosition(a, b) == (Nullish(a) /\ Nullish(b)) \/ a = b

\* Column rc is what the claim makes of new column nc of a table matched with
\* the old columns: the old identifier of a column of that name, a fresh one
\* when there is none.
ReconciledColumn(rc, nc, oldColumns, oldSchema) ==
    /\ rc.name = nc.name
    /\ IF \E l \in 1..Len(oldColumns) : oldColumns[l].name = nc.name
       THEN \E l \in 1..Len(oldColumns) :
                oldColumns[l].name = nc.name /\ rc.id = oldColumns[l].id
       ELSE /\ ~Falsy(rc.id)
            /\ \A i \in 1..Len(oldSchema.tables) :
                \A l \in 1..Len(oldSchema.tables[i].columns) :
                    oldSchema.tables[i].columns[l].id # rc.id

\* Table rt is what the claim makes of new table nt.
ReconciledTable(rt, nt, oldSchema) ==
    /\ rt.name = nt.name
    /\ Len(rt.columns) = Len(nt.columns)
    /\ IF \E k \in 1..Len(oldSchema.tables) : oldSchema.tables[k].name = nt.name
       THEN \E k \in 1..Len(oldSchema.tables) :
                LET ot == oldSchema.tables[k]
                IN /\ ot.name = nt.name
                   /\ rt.id = ot.id
                   /\ SamePosition(rt.x, OldPositionFirst(ot.x, nt.x))
                   /\ SamePosition(rt.y, OldPositionFirst(ot.y, nt.y))
                   /\ \A j \in 1..Len(nt.columns) :
                        ReconciledColumn(rt.columns[j], nt.columns[j], ot.columns, oldSchema)
       ELSE /\ ~Falsy(rt.id)
            /\ \A k \in 1..Len(oldSchema.tables) : oldSchema.tables[k].id # rt.id
            /\ \A j \in 1..Len(nt.columns) :
                ReconciledColumn(rt.columns[j], nt.columns[j], <<>>, oldSchema)

\* C17: the schema reconcileSchemaIds makes of an answer and the schema the
\* request was about has the answer's tables and columns, in order, and no
\* others; a table whose name the old schema has keeps the old identifier
\* and the old position (the answer's position only where the old table has
\* none), and its columns whose names the old table has keep the old
\* identifiers; every other table and column has an identifier no table or
\* column of the old schema has.
C17_ReconcileMatchesByName ==
    \A c \in ResolvedCalls(St) :
        pending[c.k].kind = "modify" =>
            LET r == reconcileSchemaIds(c.response, pending[c.k].schema, idCounter).schema
            IN /\ Len(r.tables) = Len(c.response.tables)
               /\ \A i \in 1..Len(r.tables) :
                    ReconciledTable(r.tables[i], c.response.tables[i], pending[c.k].schema)

\* Every table and column of before that has an identifier has it in after.
KeepsIds(before, after) ==
    /\ Len(after.tables) = Len(before.tables)
    /\ \A i \in 1..Len(before.tables) :
        /\ ~Falsy(before.tables[i].id) => after.tables[i].id = before.tables[i].id
        /\ Len(after.tables[i].columns) = Len(before.tables[i].columns)
        /\ \A j \in 1..Len(before.tables[i].columns) :
            ~Falsy(before.tables[i].columns[j].id) =>
                after.tables[i].columns[j].id = before.tables[i].columns[j].id

\* C18: initializeSchemaIds returns a schema in which every table and column
\* has an identifier and those that had one have kept it, and so does the
\* import of a pasted string whose schema lacks all, some or none of its
\* identifiers.
C18_AssignKeepsExistingIds ==
    \A c \in ImportBase64Calls(St) :
        c.base64String.kind = "encoded" =>
            LET parsedSchema == c.base64String.json
                assigned == initializeSchemaIds(parsedSchema, idCounter).schema
                imported == SchemaOf(Run(St, c))
            IN /\ HasIds(assigned) /\ KeepsIds(parsedSchema, assigned)
               /\ HasIds(imported) /\ KeepsIds(parsedSchema, imported)

\* The connection type of a connection tool.
TypeOfTool(tool) == IF tool = "addConnection-n-n" THEN "n-to-n" ELSE "1-to-n"

\* The click on node d in state s, a source being selected and d not being
\* it, does what one handleAddConnection(source, d, type of the tool) does to
\* the projects, the banner and the clock, and leaves no source selected.
CommitsEdge(s, d) ==
    LET r == nodeClick(s, d)
        e == handleAddConnection(s, s.connectionSource, d, TypeOfTool(s.activeTool))
    IN /\ r.projects = e.projects
       /\ r.error = e.error
       /\ r.now = e.now
       /\ r.connectionSource = NoSource

\* C19: under a connection tool with no source selected, a click on node A
\* selects A and changes neither the projects (schema, history) nor the
\* banner nor the tool, and a click on a different node B after it adds the
\* connection A -> B of the tool's type once and leaves no source selected;
\* so does, in any state with a source selected, the click on a node that is
\* not the source.
C19_TwoClickProtocol ==
    IsConnectionTool(activeTool) =>
        \A a \in NodeClickCalls(St) :
            IF connectionSource = NoSource
            THEN LET r1 == Run(St, a)
                 IN /\ r1.connectionSource = a.tableId
                    /\ r1.projects = projects
                    /\ r1.error = error
                    /\ r1.activeTool = activeTool
                    /\ \A b \in NodeClickCalls(r1) :
                        b.tableId # a.tableId =>
                            /\ CommitsEdge(r1, b.tableId)
                            /\ Run(r1, b).projects
                                = handleAddConnection(St, a.tableId, b.tableId,
                                        TypeOfTool(activeTool)).projects
            ELSE a.tableId # connectionSource => CommitsEdge(St, a.tableId)

\* Two clicks have just connected two tables: no source is selected, and the
\* schema has one link more than the one before it, from a foreign-key column
\* or a junction table the second click added.
C19_Witness ==
    /\ connectionSource = NoSource /\ activeTool = "select"
    /\ ~Schema.isNull /\ Len(UndoStack) >= 1 /\ RedoStack = <<>>
    /\ LET before == UndoStack[Len(UndoStack)]
       IN /\ ~before.isNull
          /\ Cardinality(NodeIds(before)) >= 2
          /\ NodeIds(Schema) = NodeIds(before)
          /\ Len(finalLinks(Schema)) = Len(finalLinks(before)) + 1

\* C20: under a connection tool with source A selected, a click on node A
\* leaves A selected, the tool as it is and the projects (schema, history) as
\* they are.
C20_SameNodeClickIsNoOp ==
    (IsConnectionTool(activeTool) /\ connectionSource # NoSource) =>
        \A c \in NodeClickCalls(St) :
            c.tableId = connectionSource =>
                LET r == Run(St, c)
                IN /\ r.connectionSource = connectionSource
                   /\ r.activeTool = activeTool
                   /\ r.projects = projects

\* C21: whatever changes the active tool (a toolbox button, the canvas click
\* that places a table, the node click that ends a connection) leaves no
\* connection source selected, and the first node click under the tool
\* switched to selects a source and adds no connection.
C21_ToolSwitchResets ==
    \A c \in ToolCalls(St) \cup SvgClickCalls(St) \cup NodeClickCalls(St) :
        \A r \in {Run(St, c)} :
            r.activeTool # activeTool =>
                /\ r.connectionSource = NoSource
                /\ \A b \in NodeClickCalls(r) :
                    /\ Run(r, b).projects = r.projects
                    /\ Run(r, b).error = r.error

\* A source is selected under the 1-N tool and the toolbox offers the N-N
\* tool: the switch that the formula follows starts here.
C21_Witness ==
    /\ activeTool = "addConnection-1-n"
    /\ connectionSource # NoSource
    /\ connectionSource \in NodeIds(Schema)
    /\ Cardinality(NodeIds(Schema)) >= 2
    /\ \E c \in ToolCalls(St) : c.tool = "addConnection-n-n"

\* ------------------------------------------------------------------- C22
\* What the canvas, the explorer panel and the keyboard offer in state s.
EditCalls(s) ==
    SvgClickCalls(s) \cup NodeClickCalls(s) \cup DragEndCalls(s)
    \cup UpdateTableCalls(s) \cup AddColumnCalls(s) \cup UpdateColumnDetailsCalls(s)
    \cup DeleteColumnCalls(s) \cup DeleteTableCalls(s)
    \cup UndoCalls(s) \cup RedoCalls(s)

\* C22: while an AI call is pending (isLoading is set), nothing the user can
\* do on the canvas, in the explorer panel or on the keyboard changes the
\* schema, the undo stack or the redo stack, and nothing changes the active
\* tool.
C22_LoadingDisablesEdits ==
    isLoading =>
        \A c \in EditCalls(St) :
            \A r \in {Run(St, c)} :
                /\ HistoryOf(r) = HistoryOf(St)
                /\ r.activeTool = activeTool

\* ------------------------------------------------------------------- C23
\* C23: at most one AI call (chat, DDL parse, DDL or custom export) is in
\* flight at any time.
C23_OneAiCallInFlight ==
    Cardinality(InFlight(St, AiKinds)) <= 1

\* ------------------------------------------------------------------- C24
\* C24: when an AI modify call completes, its answer is reconciled with the
\* schema current at that moment and committed over it: the undo stack is the
\* current one with exactly the current schema pushed, so nothing done while
\* the call was pending is lost.
C24_CommitOverCurrent ==
    \A c \in ResolvedCalls(St) :
        pending[c.k].kind = "modify" =>
            \A r \in {Run(St, c)} :
                /\ SchemaOf(r) = reconcileSchemaIds(c.response, Schema, idCounter).schema
                /\ ActiveProject(r).undoStack = Append(ActiveProject(St).undoStack, Schema)

\* ------------------------------------------------------------------- C25
ChatErrorMessage == "Sorry, I couldn't apply that change. Please try rephrasing your request."

\* C25: when the AI chat call fails, schema, undo stack and redo stack stay as
\* they are, the failure is shown (the error banner is set and an assistant
\* message with the error is appended to the chat), and isLoading is cleared.
C25_ChatFailureKeepsHistory ==
    \A c \in RejectedCalls(St) :
        \A r \in {Run(St, c)} :
            /\ HistoryOf(r) = HistoryOf(St)
            /\ r.error = ChatErrorMessage
            /\ ActiveProject(r).messages =
                    Append(pending[c.k].newMessages,
                           [sender |-> "ai", text |-> ChatErrorMessage])
            /\ pending[c.k].newMessages[Len(pending[c.k].newMessages)].sender = "user"
            /\ ~r.isLoading

\* A chat call on a schema with history has just failed.
C25_Witness ==
    /\ error = ChatErrorMessage
    /\ ~isLoading
    /\ pending = <<>>
    /\ ~Schema.isNull
    /\ ActiveProject(St).undoStack # <<>>
    /\ ActiveProject(St).redoStack # <<>>
    /\ ActiveProject(St).messages[Len(ActiveProject(St).messages)].text = ChatErrorMessage

\* ------------------------------------------------------------------- C26
DdlFailureMessage == "Failed to parse DDL. Please check the syntax and try again."
Base64FailureMessage ==
    "Failed to parse compressed Base64. Please ensure the string is valid."

\* The undo and redo stacks of the active project.
StacksOf(s) == <<ActiveProject(s).undoStack, ActiveProject(s).redoStack>>

\* C26: a DDL import or a Base64 import that fails leaves the project with no
\* schema, shows an error, and creates no history entry (undo and redo stacks
\* are unchanged); an import with empty input is refused with an error and
\* changes nothing else.
C26_ImportFailure ==
    /\ \A c \in ImportDdlRejectedCalls(St) :
        \A r \in {Run(St, c)} :
            /\ SchemaOf(r).isNull
            /\ r.error = DdlFailureMessage
            /\ StacksOf(r) = StacksOf(St)
    /\ \A c \in ImportBase64Calls(St) :
        \A r \in {Run(St, c)} :
            /\ c.base64String.kind = "garbage" =>
                /\ SchemaOf(r).isNull
                /\ r.error = Base64FailureMessage
                /\ StacksOf(r) = StacksOf(St)
            /\ c.base64String.kind = "blank" =>
                /\ r.error = "Base64 input cannot be empty."
                /\ [r EXCEPT !.error = error] = St
    /\ \A c \in ImportClickCalls(St) :
        ActiveProject(St).ddl \in BlankTexts =>
            \A r \in {Run(St, c)} :
                /\ r.error = "DDL input cannot be empty."
                /\ [r EXCEPT !.error = error] = St

\* A DDL import over a schema with history has just failed.
C26_Witness ==
    /\ error = DdlFailureMessage
    /\ Schema.isNull
    /\ ~isLoading
    /\ pending = <<>>
    /\ ActiveProject(St).undoStack # <<>>
    /\ \E i \in 1..Len(ActiveProject(St).undoStack) :
            ~ActiveProject(St).undoStack[i].isNull

\* ------------------------------------------------------------------- C27
\* C27: the position update at the end of a drag writes the coordinates of the
\* dragged table and of no other, is not part of the history (undo and redo
\* stacks are unchanged, the redo stack is not cleared), and changes nothing
\* else in the schema or the project.
C27_PositionUpdateOutsideHistory ==
    activeTool = "select" =>
        \A c \in DragEndCalls(St) :
            \A r \in {Run(St, c)} :
                /\ StacksOf(r) = StacksOf(St)
                /\ \E i \in 1..Len(Schema.tables) :
                    /\ Schema.tables[i].id = c.tableId
                    /\ SchemaOf(r) = MkSchema([Schema.tables EXCEPT
                                                 ![i].x = c.position.x,
                                                 ![i].y = c.position.y])
                /\ r = [St EXCEPT !.projects = r.projects]
                /\ \A f \in DOMAIN ActiveProject(St) \ {"schema"} :
                        ActiveProject(r)[f] = ActiveProject(St)[f]

\* ------------------------------------------------------------------- C28
\* C28: when the page is opened and the stored project data is missing or
\* does not parse, loading ends with a fresh default project (no schema,
\* empty history) in the project list, and that project is active; loading
\* never ends with no project.
C28_StartupDegradesToDefault ==
    storage.projects.kind \in {"missing", "corrupt"} =>
        \A r \in {loadProjects(storage, now)} :
            /\ Len(r.projects) = 1
            /\ r.projects[1] = NewProject(r.activeProjectId, "My First Schema")
            /\ HasActive(r)

\* ------------------------------------------------------------------- C29
\* C29: exactly one project is active: from a state in which the active id
\* names a project of the list, creating, switching, renaming and deleting
\* projects lead to such a state again (deleting the active project makes a
\* remaining one active).
C29_ActiveProjectExists ==
    HasActive(St) =>
        \A c \in ProjectCalls(St) :
            \A r \in {Run(St, c)} :
                /\ HasActive(r)
                /\ Cardinality({i \in 1..Len(r.projects) :
                                    r.projects[i].id = r.activeProjectId}) = 1

\* ------------------------------------------------------------------- C30
\* Every table and column of the schema has an identifier.
AllIdsAssigned(schema) ==
    \A i \in 1..Len(schema.tables) :
        /\ ~Falsy(schema.tables[i].id)
        /\ \A j \in 1..Len(schema.tables[i].columns) :
                ~Falsy(schema.tables[i].columns[j].id)

\* C30: importing the shareable string of the current schema, all of whose
\* identifiers are assigned, gives a current schema equal to it (same tables,
\* columns, identifiers and positions) and mints no identifier.
C30_EncodingRoundTrip ==
    (~Schema.isNull /\ AllIdsAssigned(Schema)) =>
        \A c \in ImportBase64Calls(St) :
            c.base64String = base64Schema(Schema) =>
                \A r \in {Run(St, c)} :
                    /\ SchemaOf(r) = Schema
                    /\ r.idCounter = idCounter

\* ------------------------------------------------------------------- C31
\* The name the claim gives the new table: new_table when no table has it,
\* else new_table_k for the least k >= 2 that no table has.
FirstUnusedTableName(used) ==
    IF "new_table" \notin used THEN "new_table"
    ELSE LET Name(k) == "new_table_" \o ToString(k)
             k == CHOOSE n \in 2..(Cardinality(used) + 2) :
                    /\ Name(n) \notin used
                    /\ \A m \in 2..(n - 1) : Name(m) \in used
         IN Name(k)

\* C31: add table appends exactly one table to the schema (to an empty list
\* of tables when there is no schema), named new_table if unused and else
\* new_table_k for the smallest unused k >= 2, with the single column id
\* (INTEGER, primary key, not a foreign key, NOT NULL), at the position given,
\* and leaves every existing table as it is.
C31_AddTable ==
    HasActive(St) =>
        \A c \in AddTableCalls(St) :
            \A r \in {Run(St, c)} :
                LET old == IF Schema.isNull THEN <<>> ELSE Schema.tables
                    new == SchemaOf(r).tables
                    added == new[Len(new)]
                IN /\ ~SchemaOf(r).isNull
                   /\ Len(new) = Len(old) + 1
                   /\ SubSeq(new, 1, Len(old)) = old
                   /\ added.name = FirstUnusedTableName({old[i].name : i \in 1..Len(old)})
                   /\ Len(added.columns) = 1
                   /\ added.columns[1].name = "id"
                   /\ added.columns[1].type = "INTEGER"
                   /\ added.columns[1].isPrimaryKey
                   /\ ~added.columns[1].isForeignKey
                   /\ added.columns[1].constraints = <<"NOT NULL">>
                   /\ added.x = c.position.x
                   /\ added.y = c.position.y

\* Tables have been added while new_table and new_table_2 were in use.
C31_Witness ==
    /\ ~Schema.isNull
    /\ {"new_table", "new_table_2", "new_table_3"} \subseteq TableNames(Schema)
    /\ ActiveProject(St).undoStack # <<>>
    /\ ActiveProject(St).undoStack[1].isNull

\* ---------------------------------------------------- the numbers of edges
\* A JavaScript number is an IEEE 754 binary64 value. The edge geometry is
\* computed on such values, here as a sign, a natural significand and a
\* binary exponent: the value is (-1)^neg * m * 2^e. Significands are
\* naturals of any size, kept as little-endian sequences of 15-bit limbs
\* with no leading zero limb; <<>> is zero.
LimbBits == 15
LimbBase == 2 ^ LimbBits

BigOf(n) ==
    IF n = 0 THEN <<>>
    ELSE IF n < LimbBase THEN <<n>>
    ELSE IF n < LimbBase * LimbBase THEN <<n % LimbBase, n \div LimbBase>>
    ELSE <<n % LimbBase, (n \div LimbBase) % LimbBase, n \div (LimbBase * LimbBase)>>

Limb(a, i) == IF i <= Len(a) THEN a[i] ELSE 0

RECURSIVE BigTrim(_)
BigTrim(a) ==
    IF a = <<>> \/ a[Len(a)] # 0 THEN a ELSE BigTrim(SubSeq(a, 1, Len(a) - 1))

RECURSIVE BigAddFrom(_, _, _, _)
BigAddFrom(a, b, i, carry) ==
    IF i > Len(a) /\ i > Len(b) THEN (IF carry = 0 THEN <<>> ELSE <<carry>>)
    ELSE LET t == Limb(a, i) + Limb(b, i) + carry
         IN <<t % LimbBase>> \o BigAddFrom(a, b, i + 1, t \div LimbBase)

BigAdd(a, b) == BigAddFrom(a, b, 1, 0)

\* a - b for a >= b.
RECURSIVE BigSubFrom(_, _, _, _)
BigSubFrom(a, b, i, borrow) ==
    IF i > Len(a) THEN <<>>
    ELSE LET t == Limb(a, i) - Limb(b, i) - borrow
         IN <<IF t < 0 THEN t + LimbBase ELSE t>>
            \o BigSubFrom(a, b, i + 1, IF t < 0 THEN 1 ELSE 0)

BigSub(a, b) == BigTrim(BigSubFrom(a, b, 1, 0))

RECURSIVE BigCmpFrom(_, _, _)
BigCmpFrom(a, b, i) ==
    IF i = 0 THEN 0
    ELSE IF a[i] > b[i] THEN 1
    ELSE IF a[i] < b[i] THEN -1
    ELSE BigCmpFrom(a, b, i - 1)

\* The sign of a - b.
BigCmp(a, b) ==
    IF Len(a) > Len(b) THEN 1
    ELSE IF Len(a) < Len(b) THEN -1
    ELSE BigCmpFrom(a, b, Len(a))

\* a * k for a limb k.
RECURSIVE BigScaleFrom(_, _, _, _)
BigScaleFrom(a, k, i, carry) ==
    IF i > Len(a) THEN (IF carry = 0 THEN <<>> ELSE <<carry>>)
    ELSE LET t == a[i] * k + carry
         IN <<t % LimbBase>> \o BigScaleFrom(a, k, i + 1, t \div LimbBase)

BigScale(a, k) == IF k = 0 THEN <<>> ELSE BigScaleFrom(a, k, 1, 0)

BigShiftLimbs(a, n) == IF a = <<>> THEN a ELSE [i \in 1..n |-> 0] \o a

RECURSIVE BigMulFrom(_, _, _)
BigMulFrom(a, b, i) ==
    IF i > Len(b) THEN <<>>
    ELSE BigAdd(BigShiftLimbs(BigScale(a, b[i]), i - 1), BigMulFrom(a, b, i + 1))

BigMul(a, b) == BigMulFrom(a, b, 1)

\* a * 2^n and the floor of a / 2^n.
BigShl(a, n) == BigShiftLimbs(BigScale(a, 2 ^ (n % LimbBits)), n \div LimbBits)

RECURSIVE BigShrFrom(_, _, _)
BigShrFrom(a, r, i) ==
    IF i > Len(a) THEN <<>>
    ELSE <<(a[i] \div (2 ^ r)) + (Limb(a, i + 1) % (2 ^ r)) * (2 ^ (LimbBits - r))>>
         \o BigShrFrom(a, r, i + 1)

BigShr(a, n) ==
    LET drop == n \div LimbBits
    IN IF drop >= Len(a) THEN <<>>
       ELSE BigTrim(BigShrFrom(SubSeq(a, drop + 1, Len(a)), n % LimbBits, 1))

\* a modulo 2^n.
BigLow(a, n) == BigSub(a, BigShl(BigShr(a, n), n))

\* The number of binary digits of a.
BigBits(a) ==
    IF a = <<>> THEN 0
    ELSE LimbBits * (Len(a) - 1)
         + CHOOSE k \in 1..LimbBits : 2 ^ (k - 1) <= a[Len(a)] /\ a[Len(a)] < 2 ^ k

BigIsOdd(a) == a # <<>> /\ a[1] % 2 = 1

\* One step of long division in base 2^15: the digit k and the remainder of
\* r2 by b, for r2 < b * 2^15. The leading limb of b is at least 2^14, which
\* keeps the estimate made from the leading limbs within two of the digit.
BigDigit(r2, b) ==
    LET n == Len(b)
        est == (Limb(r2, n + 1) * LimbBase + Limb(r2, n)) \div b[n]
        hi == IF est > LimbBase - 1 THEN LimbBase - 1 ELSE est
        lo == IF hi < 2 THEN 0 ELSE hi - 2
        k == CHOOSE c \in lo..hi :
                /\ BigCmp(BigScale(b, c), r2) <= 0
                /\ BigCmp(r2, BigScale(b, c + 1)) < 0
    IN [q |-> k, r |-> BigSub(r2, BigScale(b, k))]

\* Long division from the leading limb down: d holds the quotient and the
\* remainder of the limbs above j of a by b.
RECURSIVE BigDivLimbs(_, _, _, _)
BigDivLimbs(a, b, j, d) ==
    IF j = 0 THEN d
    ELSE LET step == BigDigit(BigTrim(<<a[j]>> \o d.r), b)
         IN IF step.q = 0 /\ d.q = <<>>
            THEN BigDivLimbs(a, b, j - 1, [q |-> <<>>, r |-> step.r])
            ELSE BigDivLimbs(a, b, j - 1, [q |-> <<step.q>> \o d.q, r |-> step.r])

\* Quotient and remainder of a by b > 0: both are scaled to bring the leading
\* limb of b up to 2^14, which leaves the quotient as it is.
BigDivMod(a, b) ==
    LET s == (LimbBits - (BigBits(b) % LimbBits)) % LimbBits
        a2 == BigShl(a, s)
        d == BigDivLimbs(a2, BigShl(b, s), Len(a2), [q |-> <<>>, r |-> <<>>])
    IN [q |-> d.q, r |-> BigShr(d.r, s)]

\* Exact arithmetic on the values (-1)^neg * m * 2^e.
Dy(neg, m, e) == [neg |-> neg /\ m # <<>>, m |-> m, e |-> e]
DyOfInt(n) == Dy(n < 0, BigOf(IF n < 0 THEN -n ELSE n), 0)
DyIsZero(a) == a.m = <<>>
DyNeg(a) == Dy(~a.neg, a.m, a.e)
DyAbs(a) == Dy(FALSE, a.m, a.e)

DyAdd(a, b) ==
    LET e == IF a.e < b.e THEN a.e ELSE b.e
        ma == BigShl(a.m, a.e - e)
        mb == BigShl(b.m, b.e - e)
    IN IF a.neg = b.neg THEN Dy(a.neg, BigAdd(ma, mb), e)
       ELSE IF BigCmp(ma, mb) >= 0 THEN Dy(a.neg, BigSub(ma, mb), e)
       ELSE Dy(b.neg, BigSub(mb, ma), e)

DySub(a, b) == DyAdd(a, DyNeg(b))
DyMul(a, b) == Dy(a.neg # b.neg, BigTrim(BigMul(a.m, b.m)), a.e + b.e)

\* The sign of a - b.
DyCmp(a, b) ==
    LET d == DySub(a, b) IN IF DyIsZero(d) THEN 0 ELSE IF d.neg THEN -1 ELSE 1

DyLeq(a, b) == DyCmp(a, b) <= 0

\* binary64 keeps 53 significant binary digits and rounds every result to
\* the nearest such value, ties to the one with an even significand. Inexact
\* says that the exact value lies strictly above d in magnitude, by less than
\* one unit of d's last digit. The magnitudes of the edge geometry stay far
\* from the ends of the exponent range, so no result overflows or is
\* subnormal.
SignificandBits == 53

RoundBinary64(d, inexact) ==
    LET s == BigBits(d.m) - SignificandBits IN
    IF s <= 0 THEN d
    ELSE LET q == BigShr(d.m, s)
             c == BigCmp(BigLow(d.m, s), BigShl(<<1>>, s - 1))
             up == c > 0 \/ (c = 0 /\ (inexact \/ BigIsOdd(q)))
         IN Dy(d.neg, IF up THEN BigAdd(q, <<1>>) ELSE q, d.e + s)

F64Add(a, b) == RoundBinary64(DyAdd(a, b), FALSE)
F64Sub(a, b) == RoundBinary64(DySub(a, b), FALSE)
F64Mul(a, b) == RoundBinary64(DyMul(a, b), FALSE)

\* a / b for b # 0: the dividend is scaled until the quotient has two digits
\* more than a significand, and the remainder tells whether it is exact.
F64Div(a, b) ==
    IF DyIsZero(a) THEN a
    ELSE LET need == BigBits(b.m) + SignificandBits + 2 - BigBits(a.m)
             k == IF need > 0 THEN need ELSE 0
             d == BigDivMod(BigShl(a.m, k), b.m)
         IN RoundBinary64(Dy(a.neg # b.neg, d.q, a.e - b.e - k), d.r # <<>>)

\* Math.abs and Math.max.
F64Abs(a) == DyAbs(a)
F64Max(a, b) == IF DyCmp(a, b) >= 0 THEN a ELSE b


\* --------------------------------------------- SchemaGraph: edge geometry
TABLE_WIDTH == 200
TABLE_HEADER_HEIGHT == 45
COLUMN_HEIGHT == 28
TABLE_FOOTER_HEIGHT == 40
tableHeight(table) ==
    TABLE_HEADER_HEIGHT + Len(table.columns) * COLUMN_HEIGHT + TABLE_FOOTER_HEIGHT

\* The binary64 value of a stored coordinate: n.v model units of
\* 1 / PosUnit pixel each.
ToDouble(n) ==
    Dy(n.v < 0, BigOf(IF n.v < 0 THEN -n.v ELSE n.v), -(MaxCascadeNow + 1))

\* A node of finalNodes: fx and fy pin it at the table's stored position,
\* which the simulation copies into x and y.
GraphNode(table) ==
    [id |-> table.id, x |-> ToDouble(table.x), y |-> ToDouble(table.y),
     width |-> DyOfInt(TABLE_WIDTH), height |-> DyOfInt(tableHeight(table))]

F64Half == Dy(FALSE, <<1>>, -1)

getRectIntersection_Full(p1, p2, rect) ==
    LET dx == F64Sub(p2.x, p1.x)
        dy == F64Sub(p2.y, p1.y)
        t == F64Div(DyOfInt(1), F64Max(F64Div(F64Abs(dx), rect.width),
                                       F64Div(F64Abs(dy), rect.height)))
    IN IF DyIsZero(dx) /\ DyIsZero(dy) THEN p1
       ELSE [x |-> F64Add(p1.x, F64Mul(t, dx)), y |-> F64Add(p1.y, F64Mul(t, dy))]

getRectIntersection(p1, p2, rect) ==
    LET dx == F64Sub(p2.x, p1.x)
        dy == F64Sub(p2.y, p1.y)
        t == F64Div(F64Half, F64Max(F64Div(F64Abs(dx), rect.width),
                                    F64Div(F64Abs(dy), rect.height)))
    IN IF DyIsZero(dx) /\ DyIsZero(dy) THEN p1
       ELSE [x |-> F64Add(p1.x, F64Mul(t, dx)), y |-> F64Add(p1.y, F64Mul(t, dy))]

\* The two ends of the line getCrowFootPath draws between two nodes.
getCrowFootPath(source, target) ==
    LET p1 == [x |-> source.x, y |-> source.y]
        p2 == [x |-> target.x, y |-> target.y]
    IN [intersect1 |-> getRectIntersection(p1, p2, source),
        intersect2 |-> getRectIntersection(p2, p1, target)]


\* The canvas clicked with the add-table tool at one of a few places, among
\* them the spot of an earlier table and the spot five pixels below it.
GeometryPlaces ==
    {[x |-> Num(x * PosUnit), y |-> Num(y * PosUnit)] : x \in {0, 3}, y \in {0, 5}}

PlaceTable ==
    \E position \in GeometryPlaces :
        Apply([NoCall EXCEPT !.op = "handleAddTable", !.position = position])

MaxGeometryNow == 4
MaxGeometryHistory == 4
InitGeometry == InitApp /\ obs = ObsInit(FALSE, MaxGeometryNow, MaxGeometryHistory)

\* A 1-N connection drawn between two nodes of the graph.
ConnectNodes ==
    \E c \in {k \in AddConnectionCalls(St) :
                k.type = "1-to-n" /\ k.tableId \in NodeIds(Schema)} : Apply(c)

NextGeometry ==
    \/ PlaceTable
    \/ AddColumn
    \/ ConnectNodes

SpecGeometry == InitGeometry /\ [][NextGeometry]_vars

\* The ends of the drawn edges: each link of the graph whose two tables are
\* nodes pinned at stored positions, once from either side.
EdgeEnds(schema) ==
    LET links == finalLinks(schema)
        placed == {schema.tables[i].id : i \in {k \in 1..Len(schema.tables) :
                      /\ schema.tables[k].x.kind = "number"
                      /\ schema.tables[k].y.kind = "number"}} \cap NodeIds(schema)
        node(id) == GraphNode(schema.tables[TableIdx(schema, id)])
    IN UNION {{[node |-> node(links[i].source), other |-> node(links[i].target),
                point |-> getCrowFootPath(node(links[i].source),
                                          node(links[i].target)).intersect1],
               [node |-> node(links[i].target), other |-> node(links[i].source),
                point |-> getCrowFootPath(node(links[i].source),
                                          node(links[i].target)).intersect2]} :
              i \in {k \in 1..Len(links) :
                        links[k].source \in placed /\ links[k].target \in placed}}

Coincident(a, b) == DyCmp(a.x, b.x) = 0 /\ DyCmp(a.y, b.y) = 0

\* (point - node) x (other - node), exactly.
CrossProduct(end) ==
    DySub(DyMul(DySub(end.point.x, end.node.x), DySub(end.other.y, end.node.y)),
          DyMul(DySub(end.point.y, end.node.y), DySub(end.other.x, end.node.x)))

OffsetX(end) == DyAbs(DySub(end.point.x, end.node.x))
OffsetY(end) == DyAbs(DySub(end.point.y, end.node.y))
HalfWidth(end) == DyMul(F64Half, end.node.width)
HalfHeight(end) == DyMul(F64Half, end.node.height)

RoundingTolerance == Dy(FALSE, <<1>>, -40)

C33_LinksJoinNodes ==
    \A i \in 1..Len(finalLinks(Schema)) :
        /\ finalLinks(Schema)[i].source \in NodeIds(Schema)
        /\ finalLinks(Schema)[i].target \in NodeIds(Schema)


\* Manual editing long enough to turn a junction table into a node and back.
MaxJunctionNow == 6
MaxJunctionHistory == 6
InitJunction == InitApp /\ obs = ObsInit(FALSE, MaxJunctionNow, MaxJunctionHistory)
SpecJunction == InitJunction /\ [][NextCascade]_vars


\* ------------------------------------------------------- identifier claims
\* The two bounds in the behaviours of SpecReload.
MaxReloadNow == 3
MaxReloadHistory == 3

InitReload == InitApp /\ obs = ObsInit(FALSE, MaxReloadNow, MaxReloadHistory)

\* A session with the assistant, manual renames of tables and page reloads,
\* each reload restarting idCounter from zero.
NextReload ==
    \/ SendMessage
    \/ SendMessageResolved
    \/ SendMessageRejected
    \/ (~isLoading /\ UpdateTable)
    \/ Mount
    \/ DismissError

SpecReload == InitReload /\ [][NextReload]_vars

\* The identifiers of a schema are pairwise distinct: those of its tables,
\* and those of all its columns.
UniqueIds(schema) ==
    /\ \A i, k \in 1..Len(schema.tables) :
        schema.tables[i].id = schema.tables[k].id => i = k
    /\ \A i, k \in 1..Len(schema.tables) :
        \A j \in 1..Len(schema.tables[i].columns) :
            \A l \in 1..Len(schema.tables[k].columns) :
                schema.tables[i].columns[j].id = schema.tables[k].columns[l].id
                    => (i = k /\ j = l)

\* The schema a chat callback leaves in the project that issued the request.
IssuerSchema(s, q) ==
    LET at == {i \in 1..Len(s.projects) : s.projects[i].id = q.activeProjectId}
    IN IF at = {} THEN NullSchema ELSE s.projects[CHOOSE i \in at : TRUE].schema

\* C34: identifiers are unique within a schema: after initializeSchemaIds,
\* after reconcileSchemaIds of an answer with unique table and column names
\* against a sent schema with unique identifiers (idCounter possibly restarted
\* by a reload), and after any manual mutation of a schema with unique
\* identifiers.
C34_UniqueIdentifiers ==
    HasActive(St) =>
        /\ \A c \in ResolvedCalls(St) :
            LET q == pending[c.k]
                after == IssuerSchema(Run(St, c), q)
            IN IF q.kind = "create" THEN UniqueIds(after)
               ELSE (UniqueNames(c.response) /\ UniqueIds(q.schema)) => UniqueIds(after)
        /\ \A c \in MutationCalls(St) :
            UniqueIds(Schema) => UniqueIds(SchemaOf(Run(St, c)))


\* ------------------------------------------------------------------- C35
\* C35: a connection source is selected only while a connection tool is
\* active; the canvas click that places a table under the add-table tool, and
\* the node click made while a source is selected, leave the select tool
\* active and no source selected.
C35_SourceOnlyUnderConnectionTool ==
    /\ connectionSource # NoSource => IsConnectionTool(activeTool)
    /\ activeTool = "addTable" =>
        \A c \in SvgClickCalls(St) :
            \A r \in {Run(St, c)} :
                r.activeTool = "select" /\ r.connectionSource = NoSource
    /\ (IsConnectionTool(activeTool) /\ connectionSource # NoSource) =>
        \A c \in NodeClickCalls(St) :
            \A r \in {Run(St, c)} :
                r.activeTool = "select" /\ r.connectionSource = NoSource

\* A source is selected under the N-N tool and a second node can be clicked.
C35_Witness ==
    /\ activeTool = "addConnection-n-n"
    /\ connectionSource \in NodeIds(Schema)
    /\ \E c \in NodeClickCalls(St) : c.tableId # connectionSource


\* ------------------------------------------------ claims on several projects
\* The two bounds in the behaviours of SpecSwitch.
MaxSwitchNow == 2
MaxSwitchHistory == 1

\* The state after construction and one click on New Project.
InitSwitch ==
    /\ projects = <<NewProject("proj-0", "My First Schema"),
                    NewProject("proj-1", "Untitled Schema 2")>>
    /\ activeProjectId = "proj-1"
    /\ error = NoError
    /\ now = 2
    /\ activeTool = "select"
    /\ connectionSource = NoSource
    /\ idCounter = 0
    /\ isLoading = FALSE
    /\ pending = <<>>
    /\ storage = saveProjects(NoStorage, St)
    /\ obs = ObsInit(FALSE, MaxSwitchNow, MaxSwitchHistory)

\* Two projects, the chat and manual edits; the project menu stays enabled
\* while an answer is awaited.
NextSwitch ==
    \/ SwitchProject
    \/ SendMessage
    \/ SendMessageResolved
    \/ SendMessageRejected
    \/ (~isLoading /\ AddTable)
    \/ DismissError

SpecSwitch == InitSwitch /\ [][NextSwitch]_vars

\* What a project holds besides its id and name.
Content(p) ==
    [schema |-> p.schema, undoStack |-> p.undoStack, redoStack |-> p.redoStack,
     messages |-> p.messages, ddl |-> p.ddl]

\* The handlers that edit a project at once, and the continuations of the
\* AI calls that edit one when the answer arrives.
DirectEditCalls(s) ==
    MutationCalls(s) \cup DragEndCalls(s) \cup UndoCalls(s) \cup RedoCalls(s)
    \cup ImportBase64Calls(s)

AnswerCalls(s) ==
    ResolvedCalls(s) \cup RejectedCalls(s)
    \cup ImportDdlResolvedCalls(s) \cup ImportDdlRejectedCalls(s)

\* Call c in state s leaves every project but the one with this id as it is.
ChangesOnly(s, c, projectId) ==
    LET r == Run(s, c)
    IN /\ Len(r.projects) = Len(s.projects)
       /\ \A i \in 1..Len(s.projects) :
            s.projects[i].id # projectId =>
                /\ r.projects[i].id = s.projects[i].id
                /\ Content(r.projects[i]) = Content(s.projects[i])

\* The redo that follows an undo leaves every project but this one as it is.
RedoChangesOnly(s, projectId) ==
    \A u \in UndoCalls(s) :
        \A c \in RedoCalls(Run(s, u)) : ChangesOnly(Run(s, u), c, projectId)

ProjectOf(s, projectId) ==
    s.projects[CHOOSE i \in 1..Len(s.projects) : s.projects[i].id = projectId]

IsAiMessage(m) == m.sender = "ai"

\* C37: when the user has switched the active project while a chat call is
\* pending, the call's result is applied to the project that issued the
\* request (the answer's tables are committed there over the schema sent,
\* which is pushed on its undo stack, and the user's message and the AI's
\* message end its transcript; a failure adds the two messages only), and the
\* project active at completion is left unchanged.
C37_ResultGoesToIssuer ==
    HasActive(St) =>
        \A c \in ResolvedCalls(St) \cup RejectedCalls(St) :
            LET q == pending[c.k]
                r == Run(St, c)
                issuer == ProjectOf(r, q.activeProjectId)
            IN (/\ q.activeProjectId # activeProjectId
                /\ \E i \in 1..Len(projects) : projects[i].id = q.activeProjectId) =>
                /\ Content(ActiveProject(r)) = Content(ActiveProject(St))
                /\ r.activeProjectId = activeProjectId
                /\ Len(issuer.messages) = Len(q.newMessages) + 1
                /\ SubSeq(issuer.messages, 1, Len(q.newMessages)) = q.newMessages
                /\ IsAiMessage(issuer.messages[Len(issuer.messages)])
                /\ IF c.op = "sendMessageResolved"
                   THEN /\ TableNames(issuer.schema) = TableNames(c.response)
                        /\ Len(issuer.schema.tables) = Len(c.response.tables)
                        /\ issuer.undoStack = Append(q.undoStack, q.schema)
                        /\ issuer.redoStack = <<>>
                   ELSE /\ issuer.schema = ProjectOf(St, q.activeProjectId).schema
                        /\ issuer.undoStack = ProjectOf(St, q.activeProjectId).undoStack

\* No call is pending, the project that is not active holds an answered
\* request and its schema, and the active project has tables of its own.
C37_Witness ==
    /\ HasActive(St) /\ pending = <<>> /\ ~isLoading
    /\ ~Schema.isNull
    /\ \E i \in 1..Len(projects) :
        /\ projects[i].id # activeProjectId
        /\ ~projects[i].schema.isNull
        /\ Len(projects[i].messages) = 2
        /\ IsAiMessage(projects[i].messages[2])


\* ------------------------------------------------------------------- C38
\* The AiToast shows a message: every handler that writes toastMessage writes
\* isLoading in the same place, a text with true and null with false.
ToastShown(s) == s.isLoading

\* The handlers that start an AI call, and the continuations that end one.
StartCalls(s) ==
    SendMessageCalls(s) \cup ImportClickCalls(s) \cup ReaderLoadedCalls(s) \cup ExportCalls(s)

CompletionCalls(s) ==
    ResolvedCalls(s) \cup RejectedCalls(s)
    \cup ImportDdlResolvedCalls(s) \cup ImportDdlRejectedCalls(s)
    \cup ExportResolvedCalls(s) \cup ExportRejectedCalls(s)

\* C38: the loading flag is set exactly while an AI call is pending: a chat,
\* import or export call that starts sets it (and shows the toast), and every
\* call that completes, with an answer or a failure, leaves it false and the
\* toast cleared.
C38_LoadingExactlyWhilePending ==
    /\ isLoading <=> InFlight(St, AiKinds) # {}
    /\ \A c \in StartCalls(St) :
        \A r \in {Run(St, c)} :
            Cardinality(InFlight(r, AiKinds)) > Cardinality(InFlight(St, AiKinds))
                => (r.isLoading /\ ToastShown(r))
    /\ \A c \in CompletionCalls(St) :
        \A r \in {Run(St, c)} : ~r.isLoading /\ ~ToastShown(r)


\* ------------------------------------------------------------------- C39
\* The snapshots a project stores, oldest first, with the schema on display
\* between those to undo to and those to redo to.
Timeline(p) == p.undoStack \o <<p.schema>> \o p.redoStack

\* C39 as stated: undo with an empty undo stack and redo with an empty redo
\* stack change nothing; otherwise undo moves the top snapshot of the undo
\* stack to the front of the redo stack, and redo the front snapshot of the
\* redo stack to the top of the undo stack.
C39_UndoMovesSnapshot ==
    HasActive(St) =>
        /\ \A c \in UndoCalls(St) :
            \A r \in {Run(St, c)} :
                IF UndoStack = <<>> THEN r = St
                ELSE /\ ActiveProject(r).undoStack = SubSeq(UndoStack, 1, Len(UndoStack) - 1)
                     /\ ActiveProject(r).redoStack = <<UndoStack[Len(UndoStack)]>> \o RedoStack
        /\ \A c \in RedoCalls(St) :
            \A r \in {Run(St, c)} :
                IF RedoStack = <<>> THEN r = St
                ELSE /\ ActiveProject(r).redoStack = Tail(RedoStack)
                     /\ ActiveProject(r).undoStack = Append(UndoStack, Head(RedoStack))

\* C39 as it holds: undo with an empty undo stack and redo with an empty redo
\* stack change nothing; otherwise undo puts the top snapshot of the undo
\* stack on display and the schema it replaces on the front of the redo
\* stack, and redo the reverse, so the two stacks together keep their length
\* and the snapshots their order.
C39_UndoMovesDisplay ==
    HasActive(St) =>
        /\ \A c \in UndoCalls(St) :
            \A r \in {Run(St, c)} :
                IF UndoStack = <<>> THEN r = St
                ELSE /\ ActiveProject(r).undoStack = SubSeq(UndoStack, 1, Len(UndoStack) - 1)
                     /\ SchemaOf(r) = UndoStack[Len(UndoStack)]
                     /\ ActiveProject(r).redoStack = <<Schema>> \o RedoStack
                     /\ Len(ActiveProject(r).undoStack) + Len(ActiveProject(r).redoStack)
                            = Len(UndoStack) + Len(RedoStack)
                     /\ Timeline(ActiveProject(r)) = Timeline(ActiveProject(St))
        /\ \A c \in RedoCalls(St) :
            \A r \in {Run(St, c)} :
                IF RedoStack = <<>> THEN r = St
                ELSE /\ ActiveProject(r).redoStack = Tail(RedoStack)
                     /\ SchemaOf(r) = Head(RedoStack)
                     /\ ActiveProject(r).undoStack = Append(UndoStack, Schema)
                     /\ Len(ActiveProject(r).undoStack) + Len(ActiveProject(r).redoStack)
                            = Len(UndoStack) + Len(RedoStack)
                     /\ Timeline(ActiveProject(r)) = Timeline(ActiveProject(St))

\* Both stacks hold a snapshot, and the three schemas around the one on
\* display differ from it: an undo and a redo both have something to move.
C39_Witness ==
    /\ HasActive(St)
    /\ UndoStack # <<>> /\ RedoStack # <<>>
    /\ UndoStack[Len(UndoStack)] # Schema
    /\ Head(RedoStack) # Schema
    /\ ~Schema.isNull
====
